---- MODULE Spec2Model ----
(***************************************************************************)
(* Model of the network/cni isolator                                       *)
(* (src/slave/containerizer/mesos/isolators/network/cni/cni.cpp).          *)
(*                                                                         *)
(* The isolator is one libprocess actor: every hook (recover, prepare,     *)
(* isolate, cleanup) and every deferred continuation (_attach, _detach,    *)
(* _cleanup) runs to completion before the next one starts, so each is one *)
(* action.  A plugin subprocess is outstanding from the spawn in attach /  *)
(* detach until its continuation runs; the exit status and the stdout the  *)
(* continuation receives are inputs of the continuation.  Results of       *)
(* operating-system calls that can fail (mkdir, touch, mount, unmount,     *)
(* rmdir, write, spawn) are inputs too.                                    *)
(***************************************************************************)
EXTENDS Integers, Sequences, FiniteSets, TLC

\* ------------------------------------------------------------------ bounds

\* Longest 'network_infos' list of a container request.
MaxReq == 2

\* Number of peer group IDs of the mount table.
MaxGroup == 3

\* Most cleanup() calls of one container that are pending together.
MaxCalls == 2

\* --------------------------------------------------------------- universes

\* The container IDs.  The hooks of two containers share nothing but the
\* tables keyed by the ID, so one ID is followed through its life; after an
\* agent restart with its tree gone the ID stands for a new container.
ContainerIds == {"c1"}

\* Names of the networks loaded by create() into 'networkConfigs'.
ConfigNames == {"net1", "net2"}

\* Names a request can carry: the configured ones and an unknown one.
RequestNames == ConfigNames \cup {"bogus"}

\* A 'mesos::NetworkInfo' entry without a 'name'.
NoName == "-"

\* ContainerInfo::Type of the executor's container.
ContainerTypes == {"MESOS", "DOCKER"}

\* Sequences over S of length at most n.
SeqsUpTo(S, n) == UNION {[1..k -> S] : k \in 0..n}

\* The 'network_infos' lists of the requests.
NetworkInfoLists == SeqsUpTo(RequestNames \cup {NoName}, MaxReq)

\* ContainerConfig as prepare() reads it.
ContainerConfigs ==
    [has_container : BOOLEAN, type : ContainerTypes,
     network_infos : NetworkInfoLists]

\* ------------------------------------------------------------------- state

VARIABLES
    mountTable,     \* the mount of rootDir as the mount table shows it
    networkConfigs, \* names of the loaded network configurations
    infos,          \* ContainerID -> Info (networkName -> NetworkInfo)
    disk,           \* the tree under rootDir and the ns bind mounts
    agent,          \* "starting" | "created" | "up" | "failed" | "aborted"
    known,          \* containers the containerizer knows in this run
    prepareF,       \* result of prepare(cid) in this run
    isolateF,       \* future returned by isolate(cid)
    attaches,       \* futures of the attach() calls of isolate(cid)
    cleanups        \* the cleanup(cid) calls of this run, oldest first

vars == <<mountTable, networkConfigs, infos, disk, agent, known, prepareF,
          isolateF, attaches, cleanups>>

\* ----------------------------------------------------------------- futures

\* A Future<Nothing>: pending, ready, or failed with a message.  A message is
\* what failed and the plugin stdout the message text includes.
Fut(st, what, out) == [st |-> st, what |-> what, out |-> out]
Pending == Fut("pending", "", "")
Ready == Fut("ready", "", "")
Failed(what, out) == Fut("failed", what, out)

Terminated(f) == f.st \in {"ready", "failed"}

\* The messages of the futures that are not ready, as the lambda of isolate()
\* and _cleanup() collect them (strings::join("\n", messages)).
Messages(futures) ==
    {[net |-> n, what |-> futures[n].what, out |-> futures[n].out] :
        n \in {m \in DOMAIN futures : futures[m].st = "failed"}}

\* A future of a hook: its state and, when failed, its joined messages.
HookFut(st, msgs) == [st |-> st, msgs |-> msgs]
HookNone == HookFut("none", {})
HookPending == HookFut("pending", {})
HookReady == HookFut("ready", {})
HookFailed(msgs) == HookFut("failed", msgs)
Msg(what) == [net |-> "", what |-> what, out |-> ""]

\* An await that is ready as soon as one future of the list has failed.
AwaitFirstFailure(futures) ==
    \/ \A n \in DOMAIN futures : Terminated(futures[n])
    \/ \E n \in DOMAIN futures : futures[n].st = "failed"

\* process::await(futures): the combined future is ready only when every
\* future of the list is ready or failed, whatever failed first.
AwaitAll(futures) == \A n \in DOMAIN futures : Terminated(futures[n])

\* -------------------------------------------------------------------- disk

\* One container's part of the tree under rootDir:
\*   dir   rootDir/<cid>/ exists
\*   ns    rootDir/<cid>/ns: "absent", "file" (the touched mount point) or
\*         "mounted" (the net-ns handle is bind mounted on it)
\*   nets  the network directories rootDir/<cid>/<net>/
\*   ifs   the interface directories, <<net, ifName>>
\*   info  the checkpoint files: <<net, ifName>> -> content
EmptyMap == [k \in {} |-> k]

NoDir == [dir |-> FALSE, ns |-> "absent", nets |-> {}, ifs |-> {},
          info |-> EmptyMap]

\* A function without the keys of S.
Without(f, S) == [k \in DOMAIN f \ S |-> f[k]]

\* A function with key k set to v.
With(f, k, v) == [x \in DOMAIN f \cup {k} |-> IF x = k THEN v ELSE f[x]]

\* isolate() going on without the container directory.
MkContainerDirSkipped(d) == d

\* os::mkdir(containerDir)
MkContainerDir(d) == [d EXCEPT !.dir = TRUE]

\* os::mkdir(ifDir): recursive, creates the network directory on the way.
MkNetDir(d, net) == [d EXCEPT !.dir = TRUE, !.nets = @ \cup {net}]
MkIfDir(d, net, ifName) ==
    [MkNetDir(d, net) EXCEPT !.ifs = @ \cup {<<net, ifName>>}]

\* os::write(networkInfoPath, output)
WriteInfo(d, net, ifName, text) ==
    [d EXCEPT !.info = With(@, <<net, ifName>>, text)]

\* The file open(O_TRUNC) leaves when os::write() does not get to write.
Truncated == ""

\* ----------------------------------------------------------- plugin output

\* What the continuation of a plugin run receives: the future of the exit
\* status (ready / failed; code -1 is Option<int>::none, the unreaped child)
\* and the future of the stdout read.
PluginRuns ==
    {[status |-> "failed", code |-> 0, read |-> "ready", out |-> ""],
     [status |-> "ready", code |-> -1, read |-> "ready", out |-> ""],
     [status |-> "ready", code |-> 0, read |-> "failed", out |-> ""],
     [status |-> "ready", code |-> 0, read |-> "ready", out |-> "ip4=10.0.0.5"],
     [status |-> "ready", code |-> 0, read |-> "ready", out |-> "garbage"],
     [status |-> "ready", code |-> 1, read |-> "failed", out |-> ""],
     [status |-> "ready", code |-> 1, read |-> "ready", out |-> "no ip"]}

\* No parsed result (Option<spec::NetworkInfo>::none).
NoResult == [isSome |-> FALSE, ip4 |-> ""]

\* spec::parseNetworkInfo: a Try, the error case as isError.
parseNetworkInfo(text) ==
    IF text = "ip4=10.0.0.5"
    THEN [isError |-> FALSE, value |-> [isSome |-> TRUE, ip4 |-> "10.0.0.5"]]
    ELSE [isError |-> TRUE, value |-> NoResult]

\* What prepare() returns: None ("none"), a launch info ("some") or a Failure;
\* "-" while prepare() has not been called for the container.
PrepareResult(st, what, namespaces) ==
    [st |-> st, what |-> what, namespaces |-> namespaces]
NotCalled == PrepareResult("-", "", {})

\* ------------------------------------------------------------------ create

\* The entry of rootDir in the mount table, as create() reads it:
\*   mounted  an entry with target rootDir exists
\*   shared   its peer group (Entry::shared()), NoGroup when it is not shared
\*   master   the peer group it receives propagation from, NoGroup when none
\*   parent   the peer group of its parent mount, NoGroup when not shared
NoGroup == 0
Groups == 1..MaxGroup

MountTables ==
    {[mounted |-> FALSE, shared |-> NoGroup, master |-> NoGroup,
      parent |-> p] : p \in Groups \cup {NoGroup}}
    \cup {t \in [mounted : {TRUE}, shared : Groups \cup {NoGroup},
                  master : Groups \cup {NoGroup},
                  parent : Groups \cup {NoGroup}] :
              t.master = NoGroup \/ t.master # t.shared}

\* mount --bind rootDir rootDir: the new mount is a copy of the mount the
\* directory lies in, a peer of it when that mount is shared.
MountBind(t) ==
    [t EXCEPT !.mounted = TRUE, !.shared = t.parent, !.master = NoGroup]

\* mount --make-slave rootDir: a shared mount leaves its peer group and
\* receives from it.
MakeSlave(t) ==
    IF t.shared = NoGroup THEN t
    ELSE [t EXCEPT !.master = t.shared, !.shared = NoGroup]

\* mount --make-shared rootDir: a mount that is not shared gets a peer group
\* of its own, 'fresh' being an ID no mount uses.
MakeShared(t, fresh) ==
    IF t.shared # NoGroup THEN t ELSE [t EXCEPT !.shared = fresh]

\* The peer group IDs make-shared may hand out: an ID no mount uses once
\* rootDir has left its peer group.
FreshGroups(t) == Groups \ {t.master, t.parent}

MountCommand(cmd, t, fresh) ==
    CASE cmd = "bind" -> MountBind(t)
      [] cmd = "make-slave" -> MakeSlave(t)
      [] cmd = "make-shared" -> MakeShared(t, fresh)

\* create() leaving a shared mount alone without looking at its parent.
mountCommandsTrustsShared(t) ==
    IF ~t.mounted THEN <<"bind", "make-slave", "make-shared">>
    ELSE IF t.shared = NoGroup THEN <<"make-slave", "make-shared">>
    ELSE <<>>

\* The mount commands create() passes to os::shell for the table it read.
mountCommands(t) ==
    IF ~t.mounted THEN <<"bind", "make-slave", "make-shared">>
    ELSE IF t.shared = NoGroup THEN <<"make-slave", "make-shared">>
    ELSE IF t.parent = t.shared THEN <<"make-slave", "make-shared">>
    ELSE <<>>

\* os::shell of 'a && b && c' from command i on: the commands run in order
\* and stop at the first that fails, the failAt-th (0: none fails).
RECURSIVE shell(_, _, _, _, _)
shell(cmds, i, failAt, t, fresh) ==
    IF i > Len(cmds) THEN [isError |-> FALSE, table |-> t]
    ELSE IF i = failAt THEN [isError |-> TRUE, table |-> t]
    ELSE shell(cmds, i + 1, failAt,
               MountCommand(cmds[i], t, fresh), fresh)

\* Where create() fails: nowhere, in a check before it reads the mount
\* table, in the first, second or third command of the shell line, or at
\* the realpath of the plugin directory that follows.
CreateFailures == {"none", "before", "first", "second", "third", "after"}
FailAt(fail) ==
    CASE fail = "first" -> 1 [] fail = "second" -> 2 [] fail = "third" -> 3
      [] OTHER -> 0

\* create(flags).  'flags' tells whether the plugin and configuration
\* directories are given, 'configs' are the configurations found.
create(flags, fail, fresh, configs) ==
    LET run == shell(mountCommands(mountTable), 1, FailAt(fail), mountTable,
                     fresh)
    IN  /\ UNCHANGED <<infos, disk, known, prepareF, isolateF, attaches,
                       cleanups>>
        /\ IF flags = "none"
           THEN /\ agent' = "created"
                /\ networkConfigs' = {}
                /\ UNCHANGED mountTable
           ELSE IF fail = "before"
           THEN /\ agent' = "failed"
                /\ UNCHANGED <<mountTable, networkConfigs>>
           ELSE /\ mountTable' = run.table
                /\ IF run.isError \/ fail = "after"
                   THEN agent' = "failed" /\ UNCHANGED networkConfigs
                   ELSE agent' = "created" /\ networkConfigs' = configs

\* ------------------------------------------------------------------- Init

Init ==
    /\ mountTable = [mounted |-> TRUE, shared |-> 1, master |-> NoGroup,
                     parent |-> NoGroup]
    /\ networkConfigs = ConfigNames
    /\ infos = EmptyMap
    /\ disk = [c \in ContainerIds |-> NoDir]
    /\ agent = "created"
    /\ known = {}
    /\ prepareF = [c \in ContainerIds |-> NotCalled]
    /\ isolateF = [c \in ContainerIds |-> HookNone]
    /\ attaches = [c \in ContainerIds |-> EmptyMap]
    /\ cleanups = [c \in ContainerIds |-> <<>>]

\* ---------------------------------------------------------------- prepare

\* The loop of prepare() without the test for a network joined twice.
RECURSIVE prepareLoopAllowsDuplicates(_, _, _)
prepareLoopAllowsDuplicates(network_infos, i, acc) ==
    IF i > Len(network_infos) THEN acc
    ELSE LET name == network_infos[i] IN
         IF name = NoName
         THEN prepareLoopAllowsDuplicates(network_infos, i + 1, acc)
         ELSE IF name \notin networkConfigs
         THEN [acc EXCEPT !.failure = "unknown network"]
         ELSE prepareLoopAllowsDuplicates(network_infos, i + 1,
                  [failure |-> "",
                   ifIndex |-> acc.ifIndex + 1,
                   networkNames |-> acc.networkNames \cup {name},
                   networkInfos |->
                       With(acc.networkInfos, name,
                            [ifName |-> "eth" \o ToString(acc.ifIndex),
                             network |-> NoResult])])

\* The loop of prepare() with the interface index advanced for every entry
\* of the list, the entries without a name included.
RECURSIVE prepareLoopEveryEntry(_, _, _)
prepareLoopEveryEntry(network_infos, i, acc) ==
    IF i > Len(network_infos) THEN acc
    ELSE LET name == network_infos[i] IN
         IF name = NoName
         THEN prepareLoopEveryEntry(network_infos, i + 1,
                  [acc EXCEPT !.ifIndex = @ + 1])
         ELSE IF name \notin networkConfigs
         THEN [acc EXCEPT !.failure = "unknown network"]
         ELSE IF name \in acc.networkNames
         THEN [acc EXCEPT !.failure = "joined multiple times"]
         ELSE prepareLoopEveryEntry(network_infos, i + 1,
                  [failure |-> "",
                   ifIndex |-> acc.ifIndex + 1,
                   networkNames |-> acc.networkNames \cup {name},
                   networkInfos |->
                       With(acc.networkInfos, name,
                            [ifName |-> "eth" \o ToString(acc.ifIndex),
                             network |-> NoResult])])

\* The loop of prepare() over 'network_infos' from entry i on.  'acc' carries
\* ifIndex, networkNames and networkInfos; 'failure' is the Failure returned
\* from inside the loop, "" while there is none.
RECURSIVE prepareLoop(_, _, _)
prepareLoop(network_infos, i, acc) ==
    IF i > Len(network_infos) THEN acc
    ELSE LET name == network_infos[i] IN
         IF name = NoName THEN prepareLoop(network_infos, i + 1, acc)
         ELSE IF name \notin networkConfigs
         THEN [acc EXCEPT !.failure = "unknown network"]
         ELSE IF name \in acc.networkNames
         THEN [acc EXCEPT !.failure = "joined multiple times"]
         ELSE prepareLoop(network_infos, i + 1,
                  [failure |-> "",
                   ifIndex |-> acc.ifIndex + 1,
                   networkNames |-> acc.networkNames \cup {name},
                   networkInfos |->
                       With(acc.networkInfos, name,
                            [ifName |-> "eth" \o ToString(acc.ifIndex),
                             network |-> NoResult])])

\* The namespaces of the ContainerLaunchInfo prepare() returns.
LaunchNamespaces == {"CLONE_NEWNET", "CLONE_NEWNS", "CLONE_NEWUTS"}

\* prepare() without the test at its head for an entry 'infos' holds.
prepareOverExisting(c, cfg) ==
    LET loop == prepareLoop(cfg.network_infos, 1,
                    [failure |-> "", ifIndex |-> 0, networkNames |-> {},
                     networkInfos |-> EmptyMap])
        result ==
            IF ~cfg.has_container
            THEN PrepareResult("none", "", {})
            ELSE IF cfg.type # "MESOS"
            THEN PrepareResult("failed", "not a MESOS container", {})
            ELSE IF Len(cfg.network_infos) = 0
            THEN PrepareResult("none", "", {})
            ELSE IF loop.failure # ""
            THEN PrepareResult("failed", loop.failure, {})
            ELSE IF loop.networkInfos # EmptyMap
            THEN PrepareResult("some", "", LaunchNamespaces)
            ELSE PrepareResult("none", "", {})
    IN  /\ prepareF' = [prepareF EXCEPT ![c] = result]
        /\ infos' = IF result.st = "some"
                    THEN With(infos, c, loop.networkInfos)
                    ELSE infos
        /\ known' = known \cup {c}
        /\ UNCHANGED <<networkConfigs, disk, agent, isolateF,
                       attaches, cleanups>>

\* prepare(containerId, containerConfig)
prepare(c, cfg) ==
    LET loop == prepareLoop(cfg.network_infos, 1,
                    [failure |-> "", ifIndex |-> 0, networkNames |-> {},
                     networkInfos |-> EmptyMap])
        result ==
            IF c \in DOMAIN infos
            THEN PrepareResult("failed", "already prepared", {})
            ELSE IF ~cfg.has_container
            THEN PrepareResult("none", "", {})
            ELSE IF cfg.type # "MESOS"
            THEN PrepareResult("failed", "not a MESOS container", {})
            ELSE IF Len(cfg.network_infos) = 0
            THEN PrepareResult("none", "", {})
            ELSE IF loop.failure # ""
            THEN PrepareResult("failed", loop.failure, {})
            ELSE IF loop.networkInfos # EmptyMap
            THEN PrepareResult("some", "", LaunchNamespaces)
            ELSE PrepareResult("none", "", {})
    IN  /\ prepareF' = [prepareF EXCEPT ![c] = result]
        /\ infos' = IF result.st = "some"
                    THEN With(infos, c, loop.networkInfos)
                    ELSE infos
        /\ known' = known \cup {c}
        /\ UNCHANGED <<networkConfigs, disk, agent, isolateF,
                       attaches, cleanups>>

\* ---------------------------------------------------------------- isolate

\* attach(containerId, networkName, netNsHandle) up to the spawn of the
\* plugin: the interface directory it creates and the future it returns.
\* 'sync' is what fails before the plugin runs: "ok" (the plugin was spawned
\* with CNI_COMMAND=ADD and is outstanding), "mkdir" (os::mkdir(ifDir) failed
\* at the network directory), "mkdirIf" (it failed at the interface
\* directory) or "spawn" (subprocess() failed).
SyncOutcomes == {"ok", "mkdir", "mkdirIf", "spawn"}

attachDisk(d, net, ifName, sync) ==
    CASE sync = "mkdir" -> d
      [] sync = "mkdirIf" -> MkNetDir(d, net)
      [] OTHER -> MkIfDir(d, net, ifName)

attachFuture(sync) ==
    CASE sync = "ok" -> Pending
      [] sync = "spawn" -> Failed("spawn", "")
      [] OTHER -> Failed("mkdir", "")

\* The disk after the attach() calls for the networks of S.
RECURSIVE attachAll(_, _, _, _)
attachAll(d, info, S, sync) ==
    IF S = {} THEN d
    ELSE LET n == CHOOSE m \in S : TRUE IN
         attachAll(attachDisk(d, n, info[n].ifName, sync[n]), info,
                   S \ {n}, sync)

\* An isolate() whose future fails as soon as one attach has failed.
isolateResultFirstFailure(futures) ==
    IF Messages(futures) # {} THEN HookFailed(Messages(futures))
    ELSE IF \A n \in DOMAIN futures : Terminated(futures[n]) THEN HookReady
    ELSE HookPending

\* The lambda of isolate() on await(futures): Nothing() when every attach is
\* ready, else the joined messages; pending while the await is.
isolateResult(futures) ==
    IF ~AwaitAll(futures) THEN HookPending
    ELSE IF Messages(futures) = {} THEN HookReady
    ELSE HookFailed(Messages(futures))

\* isolate(containerId, pid).  'fail' is the setup step that fails, "none"
\* when mkdir, touch and mount all succeed.
SetupFailures == {"none", "mkdir", "touch", "mount"}

isolate(c, fail, sync) ==
    LET d1 == MkContainerDir(disk[c])
        d2 == [d1 EXCEPT !.ns = IF @ = "absent" THEN "file" ELSE @]
        d3 == [d2 EXCEPT !.ns = "mounted"]
        futures == [n \in DOMAIN infos[c] |-> attachFuture(sync[n])]
    IN  /\ UNCHANGED <<networkConfigs, infos, agent, known,
                       prepareF, cleanups>>
        /\ IF c \notin DOMAIN infos
           THEN /\ isolateF' = [isolateF EXCEPT ![c] = HookReady]
                /\ UNCHANGED <<disk, attaches>>
           ELSE CASE fail = "mkdir" ->
                    /\ isolateF' = [isolateF EXCEPT ![c] =
                                       HookFailed({Msg("mkdir")})]
                    /\ UNCHANGED <<disk, attaches>>
                  [] fail = "touch" ->
                    /\ isolateF' = [isolateF EXCEPT ![c] =
                                       HookFailed({Msg("touch")})]
                    /\ disk' = [disk EXCEPT ![c] = d1]
                    /\ UNCHANGED attaches
                  [] fail = "mount" ->
                    /\ isolateF' = [isolateF EXCEPT ![c] =
                                       HookFailed({Msg("mount")})]
                    /\ disk' = [disk EXCEPT ![c] = d2]
                    /\ UNCHANGED attaches
                  [] OTHER ->
                    /\ disk' = [disk EXCEPT ![c] =
                           attachAll(d3, infos[c], DOMAIN infos[c], sync)]
                    /\ attaches' = [attaches EXCEPT ![c] = futures]
                    /\ isolateF' = [isolateF EXCEPT ![c] =
                                       isolateResult(futures)]

\* What os::write(networkInfoPath, output) does: "ok" or "failed".
WriteOutcomes == {"ok", "failed"}

\* _attach() whose Failure for a non-zero exit leaves out the plugin output.
attachResultWithoutOutput(t, wr) ==
    IF t.status # "ready" THEN Failed("status", "")
    ELSE IF t.code = -1 THEN Failed("status", "")
    ELSE IF t.read # "ready" THEN Failed("status", "")
    ELSE IF t.code # 0 THEN Failed("plugin", "")
    ELSE IF parseNetworkInfo(t.out).isError THEN Failed("parse", "")
    ELSE IF wr # "ok" THEN Failed("write", t.out)
    ELSE Ready

\* _attach() returning Nothing() whether or not the checkpoint was written.
attachResultUncheckedWrite(t, wr) ==
    IF t.status # "ready" THEN Failed("status", "")
    ELSE IF t.code = -1 THEN Failed("status", "")
    ELSE IF t.read # "ready" THEN Failed("status", "")
    ELSE IF t.code # 0 THEN Failed("plugin", t.out)
    ELSE IF parseNetworkInfo(t.out).isError THEN Failed("parse", "")
    ELSE Ready

\* The future _attach() returns, from the plugin run t and the write outcome.
attachResult(t, wr) ==
    IF t.status # "ready" THEN Failed("status", "")
    ELSE IF t.code = -1 THEN Failed("status", "")
    ELSE IF t.read # "ready" THEN Failed("status", "")
    ELSE IF t.code # 0 THEN Failed("plugin", t.out)
    ELSE IF parseNetworkInfo(t.out).isError THEN Failed("parse", "")
    ELSE IF wr # "ok" THEN Failed("write", t.out)
    ELSE Ready

\* _attach() writing the plugin output whatever the exit code and whether or
\* not it parses.
checkpointAnyOutput(d, net, ifName, t, wr) ==
    IF t.status = "ready" /\ t.read = "ready" /\ wr = "ok"
    THEN WriteInfo(d, net, ifName, t.out)
    ELSE d

\* The checkpoint _attach() leaves on disk: os::write is reached when the
\* plugin exited 0 and its output parsed, and writes when it succeeds.
checkpoint(d, net, ifName, t, wr) ==
    IF /\ t.status = "ready" /\ t.code = 0 /\ t.read = "ready"
       /\ ~parseNetworkInfo(t.out).isError
       /\ wr = "ok"
    THEN WriteInfo(d, net, ifName, t.out)
    ELSE d

\* The CHECKs at the head of attach(), _attach(), detach() and _detach().
CheckInfo(c, net) == c \in DOMAIN infos /\ net \in DOMAIN infos[c]

\* A failed CHECK aborts the agent process.
Abort ==
    /\ agent' = "aborted"
    /\ UNCHANGED <<networkConfigs, infos, disk, known, prepareF,
                   isolateF, attaches, cleanups>>

\* _attach(containerId, networkName, plugin, t): the continuation of the
\* ADD of network 'net', run with the plugin's exit status and stdout.
_attach(c, net, t, wr) ==
    IF ~CheckInfo(c, net) THEN Abort
    ELSE LET result == attachResult(t, wr)
             futures == [attaches[c] EXCEPT ![net] = result]
         IN  /\ disk' = [disk EXCEPT ![c] =
                    checkpoint(@, net, infos[c][net].ifName, t, wr)]
             /\ infos' = IF result = Ready
                         THEN [infos EXCEPT ![c][net].network =
                                  parseNetworkInfo(t.out).value]
                         ELSE infos
             /\ attaches' = [attaches EXCEPT ![c] = futures]
             /\ isolateF' = IF isolateF[c].st = "pending"
                            THEN [isolateF EXCEPT ![c] =
                                     isolateResult(futures)]
                            ELSE isolateF
             /\ UNCHANGED <<networkConfigs, agent, known,
                            prepareF, cleanups>>

\* ---------------------------------------------------------------- cleanup

\* detach(containerId, networkName) up to the spawn of the plugin with
\* CNI_COMMAND=DEL: the future it returns.
detachFuture(sync) == IF sync = "ok" THEN Pending ELSE Failed("spawn", "")

\* One cleanup(containerId) call: who called ("agent" or "recover"), the
\* futures of its detach() calls, the future it returned, and whether it
\* retries a cleanup that failed because a plugin DEL failed.
CleanupCall(by, detaches, fut, retry) ==
    [by |-> by, detaches |-> detaches, fut |-> fut, retry |-> retry]

\* A detach failed because of its plugin: the DEL exited non-zero, or its
\* exit status or stdout could not be read.
DelFailed(f) == f.st = "failed" /\ f.what \in {"plugin", "status"}

\* The calls still pending: the record of a call that returned is dropped
\* when the next call for the container is made.
PendingCalls(calls) == SelectSeq(calls, LAMBDA call : call.fut.st = "pending")

\* The last call made for the container returned a failure and one of its
\* plugin DELs had failed.
RetriesDel(calls) ==
    /\ calls # <<>>
    /\ calls[Len(calls)].fut.st = "failed"
    /\ \E n \in DOMAIN calls[Len(calls)].detaches :
          DelFailed(calls[Len(calls)].detaches[n])

\* cleanup() going on to await its detaches for a container 'infos' does not
\* hold.
cleanupCallWithoutReturn(inf, c, by, sync, retry) ==
    IF c \notin DOMAIN inf THEN CleanupCall(by, EmptyMap, HookPending, retry)
    ELSE CleanupCall(by, [n \in DOMAIN inf[c] |-> detachFuture(sync[n])],
                     HookPending, retry)

\* The call record cleanup(containerId) leaves, 'inf' being 'infos'.
cleanupCall(inf, c, by, sync, retry) ==
    IF c \notin DOMAIN inf THEN CleanupCall(by, EmptyMap, HookReady, retry)
    ELSE CleanupCall(by, [n \in DOMAIN inf[c] |-> detachFuture(sync[n])],
                     HookPending, retry)

\* cleanup(containerId)
cleanup(c, sync) ==
    /\ cleanups' = [cleanups EXCEPT ![c] =
           Append(PendingCalls(@),
                  cleanupCall(infos, c, "agent", sync, RetriesDel(@)))]
    /\ UNCHANGED <<networkConfigs, infos, disk, agent, known,
                   prepareF>>

\* os::rmdir(ifDir): recursive, the checkpoint file goes with the directory.
RmIfDir(d, net, ifName) ==
    [d EXCEPT !.ifs = @ \ {<<net, ifName>>},
              !.info = Without(@, {<<net, ifName>>})]

\* What os::rmdir does: "ok" or "failed".
RmOutcomes == {"ok", "failed"}

\* The future _detach() returns, from the plugin run t and the rmdir outcome.
detachResult(t, rm) ==
    IF t.status # "ready" THEN Failed("status", "")
    ELSE IF t.code = -1 THEN Failed("status", "")
    ELSE IF t.code = 0
    THEN (IF rm = "ok" THEN Ready ELSE Failed("rmdir", ""))
    ELSE IF t.read # "ready" THEN Failed("status", "")
    ELSE Failed("plugin", t.out)

\* _detach(containerId, networkName, plugin, t): the continuation of the DEL
\* of network 'net' started by the k-th cleanup call of the container.
_detach(c, k, net, t, rm) ==
    IF ~CheckInfo(c, net) THEN Abort
    ELSE LET result == detachResult(t, rm) IN
         /\ disk' = IF result = Ready
                    THEN [disk EXCEPT ![c] =
                             RmIfDir(@, net, infos[c][net].ifName)]
                    ELSE disk
         /\ cleanups' = [cleanups EXCEPT ![c][k].detaches[net] = result]
         /\ UNCHANGED <<networkConfigs, infos, agent, known,
                        prepareF, isolateF, attaches>>

\* What fs::unmount(target) does: "ok" or "failed".  Unmounting a path that
\* is no mount point fails whatever the outcome drawn (EINVAL).
UnmountOutcomes == {"ok", "failed"}

\* _cleanup() returning Nothing() whether or not the container directory
\* was removed.
cleanupResultUncheckedRmdir(messages, exists, unmounted, rm) ==
    IF messages # {} THEN HookFailed(messages)
    ELSE IF exists /\ ~unmounted THEN HookFailed({Msg("unmount")})
    ELSE HookReady

\* _cleanup() going on to the unmount whatever the detaches returned.
cleanupResultIgnoringDetaches(messages, exists, unmounted, rm) ==
    IF exists /\ ~unmounted THEN HookFailed({Msg("unmount")})
    ELSE IF rm # "ok" THEN HookFailed({Msg("rmdir")})
    ELSE HookReady

\* _cleanup() going on to the rmdir when the unmount failed.
cleanupResultUncheckedUnmount(messages, exists, unmounted, rm) ==
    IF messages # {} THEN HookFailed(messages)
    ELSE IF rm # "ok" THEN HookFailed({Msg("rmdir")})
    ELSE HookReady

\* The future _cleanup() returns: 'messages' of the failed detaches, whether
\* the mount point exists, whether the unmount succeeded, the rmdir outcome.
cleanupResult(messages, exists, unmounted, rm) ==
    IF messages # {} THEN HookFailed(messages)
    ELSE IF exists /\ ~unmounted THEN HookFailed({Msg("unmount")})
    ELSE IF rm # "ok" THEN HookFailed({Msg("rmdir")})
    ELSE HookReady

\* _cleanup() unmounting the namespace handle although a detach failed.
cleanupDiskDespiteFailures(d, messages, exists, unmounted, rm) ==
    IF messages # {}
    THEN [d EXCEPT !.ns = IF exists /\ unmounted THEN "file" ELSE @]
    ELSE IF exists /\ ~unmounted THEN d
    ELSE IF rm # "ok" THEN [d EXCEPT !.ns = IF exists THEN "file" ELSE @]
    ELSE NoDir

\* The container's tree as _cleanup() leaves it.
cleanupDisk(d, messages, exists, unmounted, rm) ==
    IF messages # {} THEN d
    ELSE IF exists /\ ~unmounted THEN d
    ELSE IF rm # "ok" THEN [d EXCEPT !.ns = IF exists THEN "file" ELSE @]
    ELSE NoDir

\* _cleanup(containerId, detaches): the continuation of the k-th cleanup
\* call, dispatched once await(futures) of its detaches is ready.
_cleanup(c, k, um, rm) ==
    IF c \notin DOMAIN infos THEN Abort
    ELSE LET call == cleanups[c][k]
             messages == Messages(call.detaches)
             exists == disk[c].ns # "absent"
             unmounted == disk[c].ns = "mounted" /\ um = "ok"
             result == cleanupResult(messages, exists, unmounted, rm)
         IN  /\ cleanups' = [cleanups EXCEPT ![c][k].fut = result]
             /\ disk' = [disk EXCEPT ![c] =
                    cleanupDisk(@, messages, exists, unmounted, rm)]
             /\ infos' = IF result = HookReady
                         THEN Without(infos, {c})
                         ELSE infos
             /\ UNCHANGED <<networkConfigs, agent, known,
                            prepareF, isolateF, attaches>>

\* ---------------------------------------------------------------- recover

\* paths::getNetworkNames: the network directories of the container.
getNetworkNames(d) == d.nets

\* paths::getInterfaces: the interface directories of one network.
getInterfaces(d, net) == {i \in d.ifs : i[1] = net}

NoInfo == [ifName |-> "", network |-> NoResult]

\* _recover() leaving out the network whose checkpoint file is missing.
recoverNetworkDropsMissing(d, net) ==
    LET interfaces == getInterfaces(d, net)
        ifc == CHOOSE i \in interfaces : TRUE
        parse == parseNetworkInfo(d.info[ifc])
    IN  IF net \notin networkConfigs
        THEN [error |-> "unknown network", put |-> FALSE, info |-> NoInfo]
        ELSE IF interfaces = {}
        THEN [error |-> "", put |-> FALSE, info |-> NoInfo]
        ELSE IF Cardinality(interfaces) # 1
        THEN [error |-> "more than one interface", put |-> FALSE,
              info |-> NoInfo]
        ELSE IF ifc \notin DOMAIN d.info
        THEN [error |-> "", put |-> FALSE, info |-> NoInfo]
        ELSE IF parse.isError
        THEN [error |-> "parse", put |-> FALSE, info |-> NoInfo]
        ELSE [error |-> "", put |-> TRUE,
              info |-> [ifName |-> ifc[2], network |-> parse.value]]

\* _recover() taking an interface directory without a checkpoint file for an
\* error.
recoverNetworkNeedsInfo(d, net) ==
    LET interfaces == getInterfaces(d, net)
        ifc == CHOOSE i \in interfaces : TRUE
        parse == parseNetworkInfo(d.info[ifc])
    IN  IF net \notin networkConfigs
        THEN [error |-> "unknown network", put |-> FALSE, info |-> NoInfo]
        ELSE IF interfaces = {}
        THEN [error |-> "", put |-> FALSE, info |-> NoInfo]
        ELSE IF Cardinality(interfaces) # 1
        THEN [error |-> "more than one interface", put |-> FALSE,
              info |-> NoInfo]
        ELSE IF ifc \notin DOMAIN d.info
        THEN [error |-> "read", put |-> FALSE, info |-> NoInfo]
        ELSE IF parse.isError
        THEN [error |-> "parse", put |-> FALSE, info |-> NoInfo]
        ELSE [error |-> "", put |-> TRUE,
              info |-> [ifName |-> ifc[2], network |-> parse.value]]

\* The loop of _recover() taking the first interface directory of a network
\* directory that holds several.
recoverNetworkTakesFirst(d, net) ==
    LET interfaces == getInterfaces(d, net)
        ifc == CHOOSE i \in interfaces : TRUE
        parse == parseNetworkInfo(d.info[ifc])
    IN  IF net \notin networkConfigs
        THEN [error |-> "unknown network", put |-> FALSE, info |-> NoInfo]
        ELSE IF interfaces = {}
        THEN [error |-> "", put |-> FALSE, info |-> NoInfo]
        ELSE IF ifc \notin DOMAIN d.info
        THEN [error |-> "", put |-> TRUE,
              info |-> [ifName |-> ifc[2], network |-> NoResult]]
        ELSE IF parse.isError
        THEN [error |-> "parse", put |-> FALSE, info |-> NoInfo]
        ELSE [error |-> "", put |-> TRUE,
              info |-> [ifName |-> ifc[2], network |-> parse.value]]

\* The loop of _recover() looking for the interface directories of a network
\* before it looks the network up in networkConfigs.
recoverNetworkListsFirst(d, net) ==
    LET interfaces == getInterfaces(d, net)
        ifc == CHOOSE i \in interfaces : TRUE
        parse == parseNetworkInfo(d.info[ifc])
    IN  IF interfaces = {}
        THEN [error |-> "", put |-> FALSE, info |-> NoInfo]
        ELSE IF net \notin networkConfigs
        THEN [error |-> "unknown network", put |-> FALSE, info |-> NoInfo]
        ELSE IF Cardinality(interfaces) # 1
        THEN [error |-> "more than one interface", put |-> FALSE,
              info |-> NoInfo]
        ELSE IF ifc \notin DOMAIN d.info
        THEN [error |-> "", put |-> TRUE,
              info |-> [ifName |-> ifc[2], network |-> NoResult]]
        ELSE IF parse.isError
        THEN [error |-> "parse", put |-> FALSE, info |-> NoInfo]
        ELSE [error |-> "", put |-> TRUE,
              info |-> [ifName |-> ifc[2], network |-> parse.value]]

\* The body of the loop of _recover() for one network directory: an error,
\* nothing (no interface left) or the NetworkInfo rebuilt from the disk.
recoverNetwork(d, net) ==
    LET interfaces == getInterfaces(d, net)
        ifc == CHOOSE i \in interfaces : TRUE
        parse == parseNetworkInfo(d.info[ifc])
    IN  IF net \notin networkConfigs
        THEN [error |-> "unknown network", put |-> FALSE, info |-> NoInfo]
        ELSE IF interfaces = {}
        THEN [error |-> "", put |-> FALSE, info |-> NoInfo]
        ELSE IF Cardinality(interfaces) # 1
        THEN [error |-> "more than one interface", put |-> FALSE,
              info |-> NoInfo]
        ELSE IF ifc \notin DOMAIN d.info
        THEN [error |-> "", put |-> TRUE,
              info |-> [ifName |-> ifc[2], network |-> NoResult]]
        ELSE IF parse.isError
        THEN [error |-> "parse", put |-> FALSE, info |-> NoInfo]
        ELSE [error |-> "", put |-> TRUE,
              info |-> [ifName |-> ifc[2], network |-> parse.value]]

\* _recover(containerId) leaving out the container whose directory holds no
\* network.
_recoverSkipsEmpty(inf, c) ==
    LET d == disk[c]
        names == getNetworkNames(d)
        errors == {n \in names : recoverNetwork(d, n).error # ""}
        networkInfos ==
            [n \in {m \in names : recoverNetwork(d, m).put} |->
                recoverNetwork(d, n).info]
    IN  IF ~d.dir \/ networkInfos = EmptyMap
        THEN [isError |-> FALSE, infos |-> inf]
        ELSE IF errors # {} THEN [isError |-> TRUE, infos |-> inf]
        ELSE [isError |-> FALSE, infos |-> With(inf, c, networkInfos)]

\* _recover(containerId) on the table 'inf': the Try it returns and the table
\* it leaves.
_recover(inf, c) ==
    LET d == disk[c]
        names == getNetworkNames(d)
        errors == {n \in names : recoverNetwork(d, n).error # ""}
        networkInfos ==
            [n \in {m \in names : recoverNetwork(d, m).put} |->
                recoverNetwork(d, n).info]
    IN  IF ~d.dir THEN [isError |-> FALSE, infos |-> inf]
        ELSE IF errors # {} THEN [isError |-> TRUE, infos |-> inf]
        ELSE [isError |-> FALSE, infos |-> With(inf, c, networkInfos)]

\* The first loop of recover(): _recover() for the known containers, in the
\* order of the list, from entry i on.
RECURSIVE recoverStates(_, _, _)
recoverStates(states, i, acc) ==
    IF i > Len(states) \/ acc.failed THEN acc
    ELSE LET r == _recover(acc.infos, states[i]) IN
         recoverStates(states, i + 1,
             [acc EXCEPT !.failed = r.isError, !.infos = r.infos])

\* The second loop of recover() without the test that skips the entries
\* 'infos' already holds.
RECURSIVE recoverEntriesRevisits(_, _, _, _, _)
recoverEntriesRevisits(entries, orphans, sync, i, acc) ==
    IF i > Len(entries) \/ acc.failed THEN acc
    ELSE LET c == entries[i]
             r == _recover(acc.infos, c)
         IN  IF r.isError THEN [acc EXCEPT !.failed = TRUE]
             ELSE IF c \in orphans
             THEN recoverEntriesRevisits(entries, orphans, sync, i + 1,
                      [acc EXCEPT !.infos = r.infos])
             ELSE recoverEntriesRevisits(entries, orphans, sync, i + 1,
                      [acc EXCEPT !.infos = r.infos,
                          !.cleanups[c] = Append(@,
                              cleanupCall(r.infos, c, "recover", sync[c],
                                          FALSE))])

\* The second loop of recover() cleaning up every entry it recovers, the
\* known orphans included.
RECURSIVE recoverEntriesCleansOrphans(_, _, _, _, _)
recoverEntriesCleansOrphans(entries, orphans, sync, i, acc) ==
    IF i > Len(entries) \/ acc.failed THEN acc
    ELSE LET c == entries[i]
             r == _recover(acc.infos, c)
         IN  IF c \in DOMAIN acc.infos
             THEN recoverEntriesCleansOrphans(entries, orphans, sync, i + 1,
                      acc)
             ELSE IF r.isError THEN [acc EXCEPT !.failed = TRUE]
             ELSE recoverEntriesCleansOrphans(entries, orphans, sync, i + 1,
                      [acc EXCEPT !.infos = r.infos,
                          !.cleanups[c] = Append(@,
                              cleanupCall(r.infos, c, "recover", sync[c],
                                          FALSE))])

\* The second loop of recover(): the entries of rootDir in the order os::ls
\* lists them, from entry i on.  An orphan the containerizer does not know
\* is cleaned up by a cleanup() call of recover() itself.
RECURSIVE recoverEntries(_, _, _, _, _)
recoverEntries(entries, orphans, sync, i, acc) ==
    IF i > Len(entries) \/ acc.failed THEN acc
    ELSE LET c == entries[i]
             r == _recover(acc.infos, c)
         IN  IF c \in DOMAIN acc.infos
             THEN recoverEntries(entries, orphans, sync, i + 1, acc)
             ELSE IF r.isError THEN [acc EXCEPT !.failed = TRUE]
             ELSE IF c \in orphans
             THEN recoverEntries(entries, orphans, sync, i + 1,
                      [acc EXCEPT !.infos = r.infos])
             ELSE recoverEntries(entries, orphans, sync, i + 1,
                      [acc EXCEPT !.infos = r.infos,
                          !.cleanups[c] = Append(@,
                              cleanupCall(r.infos, c, "recover", sync[c],
                                          FALSE))])

\* What a recover(states, orphans) call that starts with the tables 'inf'
\* and 'calls' leaves: whether it failed, 'infos', the cleanup calls.
recoverResult(inf, calls, states, orphans, entries, sync) ==
    recoverEntries(entries, orphans, sync, 1,
        recoverStates(states, 1,
            [failed |-> FALSE, infos |-> inf, cleanups |-> calls]))

\* recover() waiting for the cleanup() calls it makes and failing when the
\* plugin of one of them cannot be spawned.
recoverAwaitsCleanups(states, orphans, entries, sync) ==
    LET first == recoverStates(states, 1,
                     [failed |-> FALSE, infos |-> infos,
                      cleanups |-> cleanups])
        second == recoverEntries(entries, orphans, sync, 1, first)
        lost == \E c \in ContainerIds :
                    /\ second.cleanups[c] # cleanups[c]
                    /\ \E n \in DOMAIN second.infos[c] : sync[c][n] # "ok"
    IN  /\ infos' = second.infos
        /\ cleanups' = second.cleanups
        /\ known' = {states[i] : i \in DOMAIN states} \cup orphans
        /\ agent' = IF second.failed \/ lost THEN "failed" ELSE "up"
        /\ UNCHANGED <<networkConfigs, disk, prepareF, isolateF,
                       attaches>>

\* recover(states, orphans).  'entries' is the listing of rootDir, 'sync' the
\* outcome of the spawns of the cleanups it starts.
recover(states, orphans, entries, sync) ==
    LET first == recoverStates(states, 1,
                     [failed |-> FALSE, infos |-> infos,
                      cleanups |-> cleanups])
        second == recoverEntries(entries, orphans, sync, 1, first)
    IN  /\ infos' = second.infos
        /\ cleanups' = second.cleanups
        /\ known' = {states[i] : i \in DOMAIN states} \cup orphans
        /\ agent' = IF second.failed THEN "failed" ELSE "up"
        /\ UNCHANGED <<networkConfigs, disk, prepareF, isolateF,
                       attaches>>

\* ------------------------------------------------------------ agent crash

\* The agent process ends and a new one is constructed: the tables and the
\* futures are gone, the tree under rootDir and the mounts stay, as 'd'.
Restart(d) ==
    /\ disk' = d
    /\ infos' = EmptyMap
    /\ agent' = "created"
    /\ known' = {}
    /\ prepareF' = [c \in ContainerIds |-> NotCalled]
    /\ isolateF' = [c \in ContainerIds |-> HookNone]
    /\ attaches' = [c \in ContainerIds |-> EmptyMap]
    /\ cleanups' = [c \in ContainerIds |-> <<>>]
    /\ UNCHANGED networkConfigs

\* The disks isolate() passes through before it returns: the container
\* directory, the mount point, the mount, then the interface directories of
\* some of the networks.
isolatePrefixes(c) ==
    LET d1 == MkContainerDir(disk[c])
        d2 == [d1 EXCEPT !.ns = IF @ = "absent" THEN "file" ELSE @]
        d3 == [d2 EXCEPT !.ns = "mounted"]
    IN  {d1, d2, d3} \cup
        {attachAll(d3, infos[c], S, sync) :
            S \in SUBSET DOMAIN infos[c],
            sync \in [DOMAIN infos[c] -> {"ok", "mkdirIf"}]}

\* The container's tree with only the network directories of N left.
KeepNets(d, N) ==
    [d EXCEPT !.nets = N,
              !.ifs = {i \in d.ifs : i[1] \in N},
              !.info = [i \in {j \in DOMAIN d.info : j[1] \in N} |-> d.info[i]]]

\* The disks _cleanup() passes through before it returns: the unmount, then
\* the recursive os::rmdir(containerDir) entry by entry.
cleanupPrefixes(c) ==
    LET d1 == [disk[c] EXCEPT !.ns = IF @ = "mounted" THEN "file" ELSE @]
        d2 == [d1 EXCEPT !.ns = "absent"]
    IN  {KeepNets(d, N) : d \in {d1, d2}, N \in SUBSET disk[c].nets}

\* ------------------------------------------------- the containerizer's calls

\* The containerizer calls the hooks of one container in the order prepare,
\* isolate, cleanup: prepare for a container ID nobody has used, isolate
\* once after prepare, cleanup only when isolate is not pending and no
\* earlier cleanup is; after a restart it knows the containers it passed to
\* recover (the known ones and the known orphans) and calls cleanup for them.
MayPrepare(c) ==
    /\ c \notin known
    /\ c \notin DOMAIN infos
    /\ disk[c] = NoDir
    /\ cleanups[c] = <<>>

MayIsolate(c) ==
    /\ prepareF[c].st \in {"none", "some"}
    /\ isolateF[c].st = "none"
    /\ cleanups[c] = <<>>

MayCleanup(c) ==
    /\ c \in known
    /\ isolateF[c].st # "pending"
    /\ \A k \in DOMAIN cleanups[c] : cleanups[c][k].fut.st # "pending"

\* The containerizer destroys the container: it lets go of the future of
\* isolate() and of the messages it carried.
Release(c) ==
    /\ isolateF' = [isolateF EXCEPT ![c] = HookNone]
    /\ attaches' = [attaches EXCEPT ![c] =
           [n \in {m \in DOMAIN @ : @[m].st = "pending"} |-> @[n]]]

\* The detaches of the k-th cleanup call of c are all ready or failed, and
\* its _cleanup() has been dispatched and not run.
Dispatched(c, k) ==
    /\ cleanups[c][k].fut.st = "pending"
    /\ AwaitAll(cleanups[c][k].detaches)

\* The lists without repetition of the members of S.
Orders(S) ==
    {q \in [1..Cardinality(S) -> S] : \A i, j \in DOMAIN q : q[i] = q[j] => i = j}

\* The spawn outcomes of the plugins of one hook call.
SpawnOutcomes == [ConfigNames -> {"ok", "spawn"}]

\* ---------------------------------------------------------------- actions

Recover ==
    /\ UNCHANGED mountTable
    /\ agent = "created"
    /\ \E S \in SUBSET ContainerIds, orphans \in SUBSET ContainerIds :
         /\ S \cap orphans = {}
         /\ \E states \in Orders(S),
               entries \in Orders({c \in ContainerIds : disk[c].dir}),
               sync \in [ContainerIds -> SpawnOutcomes] :
              recover(states, orphans, entries, sync)

Prepare ==
    /\ UNCHANGED mountTable
    /\ agent = "up"
    /\ \E c \in ContainerIds, cfg \in ContainerConfigs :
         MayPrepare(c) /\ prepare(c, cfg)

Isolate ==
    /\ UNCHANGED mountTable
    /\ agent = "up"
    /\ \E c \in ContainerIds, fail \in SetupFailures,
          sync \in [ConfigNames -> SyncOutcomes] :
         MayIsolate(c) /\ isolate(c, fail, sync)

Attached ==
    /\ UNCHANGED mountTable
    /\ agent = "up"
    /\ \E c \in ContainerIds, t \in PluginRuns, wr \in WriteOutcomes :
         \E net \in DOMAIN attaches[c] :
            /\ attaches[c][net].st = "pending"
            /\ _attach(c, net, t, wr)

Cleanup ==
    /\ UNCHANGED mountTable
    /\ agent = "up"
    /\ \E c \in ContainerIds, sync \in SpawnOutcomes :
         MayCleanup(c) /\ cleanup(c, sync) /\ Release(c)

Detached ==
    /\ UNCHANGED mountTable
    /\ agent = "up"
    /\ \E c \in ContainerIds, t \in PluginRuns, rm \in RmOutcomes :
         \E k \in DOMAIN cleanups[c] :
            \E net \in DOMAIN cleanups[c][k].detaches :
               /\ cleanups[c][k].detaches[net].st = "pending"
               /\ _detach(c, k, net, t, rm)

CleanedUp ==
    /\ UNCHANGED mountTable
    /\ agent = "up"
    /\ \E c \in ContainerIds, um \in UnmountOutcomes, rm \in RmOutcomes :
         \E k \in DOMAIN cleanups[c] :
            Dispatched(c, k) /\ _cleanup(c, k, um, rm)

\* The agent dies between two events of the actor.
Crash ==
    /\ UNCHANGED mountTable
    /\ agent # "created"
    /\ Restart(disk)

\* The agent dies inside isolate().
CrashInIsolate ==
    /\ UNCHANGED mountTable
    /\ agent = "up"
    /\ \E c \in DOMAIN infos :
         /\ MayIsolate(c)
         /\ \E d \in isolatePrefixes(c) : Restart([disk EXCEPT ![c] = d])

\* The agent dies inside the os::write of _attach().
CrashInAttach ==
    /\ UNCHANGED mountTable
    /\ agent = "up"
    /\ \E c \in DOMAIN infos :
         \E net \in DOMAIN attaches[c] \cap DOMAIN infos[c] :
            /\ attaches[c][net].st = "pending"
            /\ Restart([disk EXCEPT ![c] =
                   WriteInfo(@, net, infos[c][net].ifName, Truncated)])

\* The agent dies inside the os::rmdir of _detach(): the checkpoint file is
\* removed, the interface directory is not.
CrashInDetach ==
    /\ UNCHANGED mountTable
    /\ agent = "up"
    /\ \E c \in DOMAIN infos :
         \E k \in DOMAIN cleanups[c] :
            \E net \in DOMAIN cleanups[c][k].detaches \cap DOMAIN infos[c] :
               /\ cleanups[c][k].detaches[net].st = "pending"
               /\ Restart([disk EXCEPT ![c].info =
                      Without(@, {<<net, infos[c][net].ifName>>})])

\* The agent dies inside _cleanup(), after the unmount.
CrashInCleanup ==
    /\ UNCHANGED mountTable
    /\ agent = "up"
    /\ \E c \in DOMAIN infos :
         \E k \in DOMAIN cleanups[c] :
            /\ Dispatched(c, k)
            /\ Messages(cleanups[c][k].detaches) = {}
            /\ disk[c].ns # "file"
            /\ \E d \in cleanupPrefixes(c) : Restart([disk EXCEPT ![c] = d])

Next ==
    \/ Recover
    \/ Prepare
    \/ Isolate
    \/ Attached
    \/ Cleanup
    \/ Detached
    \/ CleanedUp
    \/ Crash
    \/ CrashInIsolate
    \/ CrashInAttach
    \/ CrashInDetach
    \/ CrashInCleanup

Spec == Init /\ [][Next]_vars

\* The requests of at most one entry: one for each way through prepare()
\* but the network named twice.
ShortConfigs == {cfg \in ContainerConfigs : Len(cfg.network_infos) <= 1}

\* prepare() called for a container 'infos' holds an entry for: the entry an
\* earlier prepare made or the one recover rebuilt. The containerizer
\* prepares a container once, so these calls are left out of Next.
PrepareAgain ==
    /\ UNCHANGED mountTable
    /\ agent = "up"
    /\ \E c \in DOMAIN infos, cfg \in ShortConfigs : prepare(c, cfg)

NextWithPrepareAgain ==
    \/ Next
    \/ PrepareAgain

SpecWithPrepareAgain == Init /\ [][NextWithPrepareAgain]_vars

\* cleanup() called while the cleanup() recover() made for the container is
\* pending.  The actor accepts the call; the containerizer does not know
\* the container recover() cleans, so the call is left out of Next.
CleanupAgain ==
    /\ UNCHANGED mountTable
    /\ agent = "up"
    /\ \E c \in ContainerIds, sync \in SpawnOutcomes :
         /\ \E k \in DOMAIN cleanups[c] :
               cleanups[c][k].by = "recover" /\ cleanups[c][k].fut.st = "pending"
         /\ Len(cleanups[c]) < MaxCalls
         /\ cleanup(c, sync)
         /\ UNCHANGED <<isolateF, attaches>>

NextOverlap ==
    \/ Recover
    \/ Prepare
    \/ Isolate
    \/ Attached
    \/ Cleanup
    \/ Detached
    \/ CleanedUp
    \/ Crash
    \/ CleanupAgain

SpecOverlap == Init /\ [][NextOverlap]_vars

\* The trees a new agent may find under rootDir/<cid>/ whoever left them: an
\* agent started with other network configurations, a container ID used
\* again, or an operator.  Any set of network directories, up to two
\* interface directories in each, any of them with an info file written in
\* full or cut short.
IfNames == {"eth0", "eth1"}
InfoTexts == {"ip4=10.0.0.5", Truncated}
Trees ==
    {NoDir} \cup
    UNION {UNION {UNION {
        {[dir |-> TRUE, ns |-> ns, nets |-> nets, ifs |-> ifs,
          info |-> info] :
            ns \in {"absent", "file", "mounted"},
            info \in [files -> InfoTexts]} :
        files \in SUBSET ifs} :
        ifs \in SUBSET (nets \X IfNames)} :
        nets \in SUBSET ConfigNames}

\* The isolator as create() constructs it over such a tree, with the network
\* configurations found at this start: at least one, else create() fails.
InitAnyTree ==
    /\ mountTable = [mounted |-> TRUE, shared |-> 1, master |-> NoGroup,
                     parent |-> NoGroup]
    /\ networkConfigs \in SUBSET ConfigNames \ {{}}
    /\ infos = EmptyMap
    /\ disk \in [ContainerIds -> Trees]
    /\ agent = "created"
    /\ known = {}
    /\ prepareF = [c \in ContainerIds |-> NotCalled]
    /\ isolateF = [c \in ContainerIds |-> HookNone]
    /\ attaches = [c \in ContainerIds |-> EmptyMap]
    /\ cleanups = [c \in ContainerIds |-> <<>>]

\* Recovery over any tree: recover(), and the restart that calls it again.
NextRecovery ==
    \/ Recover
    \/ Crash

SpecRecovery == InitAnyTree /\ [][NextRecovery]_vars

\* The agent process before create(), over any mount table.
InitStartup ==
    /\ mountTable \in MountTables
    /\ networkConfigs = {}
    /\ infos = EmptyMap
    /\ disk = [c \in ContainerIds |-> NoDir]
    /\ agent = "starting"
    /\ known = {}
    /\ prepareF = [c \in ContainerIds |-> NotCalled]
    /\ isolateF = [c \in ContainerIds |-> HookNone]
    /\ attaches = [c \in ContainerIds |-> EmptyMap]
    /\ cleanups = [c \in ContainerIds |-> <<>>]

Create ==
    /\ agent = "starting"
    /\ \E flags \in {"none", "set"}, fail \in CreateFailures,
          fresh \in FreshGroups(mountTable),
          configs \in SUBSET ConfigNames \ {{}} :
         create(flags, fail, fresh, configs)

\* The agent process is started again; the mount table stays.
Start ==
    /\ agent \in {"created", "failed"}
    /\ agent' = "starting"
    /\ UNCHANGED <<mountTable, networkConfigs, infos, disk, known, prepareF,
                   isolateF, attaches, cleanups>>

NextStartup ==
    \/ Create
    \/ Start

SpecStartup == InitStartup /\ [][NextStartup]_vars

\* ------------------------------------------------------------- properties

\* The entries of a 'network_infos' list that carry a name, in list order.
Named(network_infos) == SelectSeq(network_infos, LAMBDA n : n # NoName)

\* The interface names in the order prepare() hands them out.
EthNames == <<"eth0", "eth1", "eth2", "eth3">>

\* A request of a MESOS container whose named networks are all configured
\* and pairwise distinct.
ValidRequest(cfg) ==
    /\ cfg.has_container
    /\ cfg.type = "MESOS"
    /\ \A i \in DOMAIN Named(cfg.network_infos) :
          /\ Named(cfg.network_infos)[i] \in networkConfigs
          /\ \A j \in DOMAIN Named(cfg.network_infos) :
                Named(cfg.network_infos)[i] = Named(cfg.network_infos)[j]
                    => i = j

\* What C1 requires of the state prepare(c, cfg) leaves.
PreparePost(c, cfg) ==
    LET named == Named(cfg.network_infos) IN
    IF Len(named) = 0
    THEN /\ prepareF'[c].st = "none"
         /\ c \notin DOMAIN infos'
    ELSE /\ c \in DOMAIN infos'
         /\ DOMAIN infos'[c] = {named[i] : i \in DOMAIN named}
         /\ Cardinality(DOMAIN infos'[c]) = Len(named)
         /\ \A i \in DOMAIN named : infos'[c][named[i]].ifName = EthNames[i]
         /\ prepareF'[c].st = "some"
         /\ prepareF'[c].namespaces =
                {"CLONE_NEWNET", "CLONE_NEWNS", "CLONE_NEWUTS"}

\* C1: for a container not in 'infos' and a valid request of a MESOS
\* container with K named, configured, pairwise distinct networks, prepare
\* returns None and adds nothing to 'infos' when K = 0; when K >= 1 it leaves
\* infos[cid] with exactly the K networks, the i-th named network of the
\* request on eth{i} (entries without a name take no index), and returns a
\* launch info that clones the network, mount and UTS namespaces.
C1_PrepareAssignsInterfaces ==
    [][\A c \in ContainerIds, cfg \in ContainerConfigs :
          (c \notin DOMAIN infos /\ ValidRequest(cfg) /\ prepare(c, cfg))
              => PreparePost(c, cfg)]_vars

\* C1 witness: prepare has put a container with two networks, the second of
\* the request on eth1, and returned the launch info.
C1_Witness ==
    \E c \in DOMAIN infos :
        /\ prepareF[c].st = "some"
        /\ Cardinality(DOMAIN infos[c]) = 2
        /\ \E n \in DOMAIN infos[c] : infos[c][n].ifName = "eth1"

\* C2: while the future of isolate(cid) of a container of 'infos' is ready,
\* rootDir/<cid>/ns is a bind mount and every network of infos[cid] has a
\* checkpoint file under its interface directory whose content parses to the
\* result kept in memory for that network.
C2_IsolateCheckpoints ==
    \A c \in DOMAIN infos :
        isolateF[c].st = "ready" =>
            /\ disk[c].dir
            /\ disk[c].ns = "mounted"
            /\ \A net \in DOMAIN infos[c] :
                  LET f == <<net, infos[c][net].ifName>> IN
                  /\ f \in disk[c].ifs
                  /\ f \in DOMAIN disk[c].info
                  /\ ~parseNetworkInfo(disk[c].info[f]).isError
                  /\ infos[c][net].network.isSome
                  /\ infos[c][net].network =
                         parseNetworkInfo(disk[c].info[f]).value

\* C2 witness: isolate of a container with two networks has succeeded and
\* both checkpoints are on disk.
C2_Witness ==
    \E c \in DOMAIN infos :
        /\ isolateF[c].st = "ready"
        /\ DOMAIN infos[c] = {"net1", "net2"}
        /\ Cardinality(DOMAIN disk[c].info) = 2

\* C3: whenever a cleanup(cid) call has returned success, rootDir/<cid>/ does
\* not exist and 'infos' does not contain cid.
C3_CleanupRemoves ==
    \A c \in ContainerIds :
        \A k \in DOMAIN cleanups[c] :
            cleanups[c][k].fut.st = "ready" =>
                /\ ~disk[c].dir
                /\ disk[c] = NoDir
                /\ c \notin DOMAIN infos

\* C3 witness: a cleanup that started the DELs of two networks has returned
\* success.
C3_Witness ==
    \E c \in ContainerIds :
        \E k \in DOMAIN cleanups[c] :
            /\ cleanups[c][k].fut.st = "ready"
            /\ Cardinality(DOMAIN cleanups[c][k].detaches) = 2

\* The future of isolate(c), a container of 'infos', has a result.
IsolateReturned(c) ==
    /\ isolateF[c].st \in {"ready", "failed"}
    /\ c \in DOMAIN infos

\* The attach of network n of c has succeeded.
AttachSucceeded(c, n) ==
    n \in DOMAIN attaches[c] /\ attaches[c][n].st = "ready"

\* An isolate(c) or _attach(c, ...) step.
IsolateStep(c) ==
    \/ \E fail \in SetupFailures, sync \in [ConfigNames -> SyncOutcomes] :
          MayIsolate(c) /\ isolate(c, fail, sync)
    \/ \E net \in DOMAIN attaches[c], t \in PluginRuns, wr \in WriteOutcomes :
          attaches[c][net].st = "pending" /\ _attach(c, net, t, wr)

\* C4: isolate(cid) awaits all its attaches: its future has a result only
\* when every attach it started is ready or failed, whichever failed first,
\* and stays pending while one is outstanding; it is failed iff the attach of
\* some network of infos[cid] did not succeed; and no step of isolate or of
\* its _attach continuations starts a cleanup, so none starts a plugin DEL.
C4_IsolateAwaitsAll ==
    /\ [](\A c \in ContainerIds :
            /\ isolateF[c].st # "pending" =>
                  \A n \in DOMAIN attaches[c] : Terminated(attaches[c][n])
            /\ isolateF[c].st = "pending" =>
                  \E n \in DOMAIN attaches[c] : ~Terminated(attaches[c][n])
            /\ IsolateReturned(c) =>
                  /\ DOMAIN attaches[c] \in {{}, DOMAIN infos[c]}
                  /\ isolateF[c].st = "failed" <=>
                        \E n \in DOMAIN infos[c] : ~AttachSucceeded(c, n))
    /\ [][\A c \in ContainerIds : IsolateStep(c) => cleanups' = cleanups]_vars

\* C4 witness: one attach of an isolate has failed, another is outstanding,
\* and the future of isolate is still pending.
C4_Witness ==
    \E c \in ContainerIds :
        /\ isolateF[c].st = "pending"
        /\ \E n \in DOMAIN attaches[c] : attaches[c][n].st = "failed"
        /\ \E n \in DOMAIN attaches[c] : attaches[c][n].st = "pending"

\* The detach behind future f spawned its plugin: a DEL was started.
DelStarted(f) == ~(f.st = "failed" /\ f.what = "spawn")

\* C5: with the hooks of a container called in the order prepare, isolate,
\* cleanup, and cleanup only once the future of isolate has a result, no
\* state holds a plugin ADD of a container that is still outstanding
\* together with a plugin DEL started for the same container.
C5_NoDelDuringAdd ==
    \A c \in ContainerIds :
        (\E m \in DOMAIN attaches[c] : attaches[c][m].st = "pending") =>
            \A k \in DOMAIN cleanups[c] :
                \A n \in DOMAIN cleanups[c][k].detaches :
                    ~DelStarted(cleanups[c][k].detaches[n])

\* C5 witness: after an isolate of this agent run that mounted the namespace
\* handle, the agent's cleanup has started a DEL that is outstanding.
C5_Witness ==
    \E c \in ContainerIds :
        /\ prepareF[c].st = "some"
        /\ disk[c].ns = "mounted"
        /\ \E k \in DOMAIN cleanups[c] :
              /\ cleanups[c][k].by = "agent"
              /\ \E n \in DOMAIN cleanups[c][k].detaches :
                    cleanups[c][k].detaches[n].st = "pending"

\* The plugin run t makes _detach() fail because of the plugin: the DEL
\* exited non-zero, or its exit status could not be read.
DelFails(t) == t.status # "ready" \/ t.code # 0

\* What a _detach(c, k, net, t, rm) step leaves alone: 'infos', the mount, the
\* container directory and the interface directories of the other networks;
\* all of the disk when the DEL failed.
DetachKeeps(c, net, t) ==
    /\ infos' = infos
    /\ disk'[c].dir = disk[c].dir
    /\ disk'[c].ns = disk[c].ns
    /\ \A i \in disk[c].ifs : i[1] # net => i \in disk'[c].ifs
    /\ DelFails(t) => disk' = disk

\* What a _cleanup(c, k, um, rm) step does when a DEL of the call failed.
CleanupFails(c, k) ==
    (\E n \in DOMAIN cleanups[c][k].detaches :
        DelFailed(cleanups[c][k].detaches[n])) =>
            /\ cleanups'[c][k].fut.st = "failed"
            /\ infos' = infos
            /\ disk' = disk

\* C6: when a detach of a cleanup(cid) fails because its DEL exited
\* non-zero or its exit status could not be read, the cleanup returns a
\* failure, infos[cid] stays, rootDir/<cid>/ns is not unmounted, the container
\* directory is not removed, and the interface directory of every network
\* whose DEL failed is left on disk by every step of the call.
C6_FailedDetachKeepsState ==
    /\ [][\A c \in ContainerIds : \A k \in DOMAIN cleanups[c] :
            /\ \A net \in DOMAIN cleanups[c][k].detaches :
                 \A t \in PluginRuns, rm \in RmOutcomes :
                    (/\ cleanups[c][k].detaches[net].st = "pending"
                     /\ _detach(c, k, net, t, rm)) => DetachKeeps(c, net, t)
            /\ \A um \in UnmountOutcomes, rm \in RmOutcomes :
                 (Dispatched(c, k) /\ _cleanup(c, k, um, rm))
                     => CleanupFails(c, k)]_vars
    /\ [](\A c \in ContainerIds : \A k \in DOMAIN cleanups[c] :
            (\E n \in DOMAIN cleanups[c][k].detaches :
                DelFailed(cleanups[c][k].detaches[n])) =>
                    /\ c \in DOMAIN infos
                    /\ cleanups[c][k].fut.st # "ready")

\* C6 witness: a cleanup has returned a failure after the DEL of one network
\* failed and the DEL of another succeeded; the mount, the container's entry
\* in 'infos' and the interface directory of the failed network are there.
C6_Witness ==
    \E c \in DOMAIN infos :
        \E k \in DOMAIN cleanups[c] :
            /\ cleanups[c][k].fut.st = "failed"
            /\ disk[c].ns = "mounted"
            /\ \E n \in DOMAIN cleanups[c][k].detaches :
                  /\ DelFailed(cleanups[c][k].detaches[n])
                  /\ <<n, infos[c][n].ifName>> \in disk[c].ifs
            /\ \E n \in DOMAIN cleanups[c][k].detaches :
                  cleanups[c][k].detaches[n].st = "ready"

\* C7: a cleanup(cid) called after a cleanup of the same agent run that
\* failed because a plugin DEL failed, and in which every DEL exits 0 (every
\* detach is ready), completes successfully: its _cleanup, with the unmount
\* and the rmdir not failing on their own, returns success, removes the
\* container directory and erases infos[cid].
C7_RetrySucceeds ==
    [][\A c \in ContainerIds : \A k \in DOMAIN cleanups[c] :
          (/\ cleanups[c][k].retry
           /\ Dispatched(c, k)
           /\ \A n \in DOMAIN cleanups[c][k].detaches :
                 cleanups[c][k].detaches[n].st = "ready"
           /\ _cleanup(c, k, "ok", "ok"))
              => /\ cleanups'[c][k].fut.st = "ready"
                 /\ ~disk'[c].dir
                 /\ c \notin DOMAIN infos']_vars

\* The plugin run t exited non-zero and its stdout was read.
AddExitsNonZero(t) ==
    t.status = "ready" /\ t.code \notin {0, -1} /\ t.read = "ready"

\* The last cleanup call made for c, after the step.
NewCall(c) == cleanups'[c][Len(cleanups'[c])]

\* C8, the ADD: the _attach of an ADD that exited non-zero fails the attach
\* with the plugin's stdout in the message, and the future of isolate, once
\* it has a result, is failed and its message contains that stdout.
AddFailureSurfaces(c) ==
    \A net \in DOMAIN attaches[c], t \in PluginRuns, wr \in WriteOutcomes :
        (/\ attaches[c][net].st = "pending"
         /\ AddExitsNonZero(t)
         /\ _attach(c, net, t, wr))
            => /\ attaches'[c][net] = Failed("plugin", t.out)
               /\ isolateF'[c].st \in {"pending", "failed"}
               /\ isolateF'[c].st = "failed" =>
                     [net |-> net, what |-> "plugin", out |-> t.out]
                         \in isolateF'[c].msgs

\* C8, the DELs: a cleanup called after an isolate that failed makes one
\* detach per network of infos[cid], the network whose ADD failed included,
\* and each detach whose spawn succeeds has a DEL outstanding.
CleanupDetachesAll(c) ==
    \A sync \in SpawnOutcomes :
        (/\ isolateF[c].st = "failed"
         /\ c \in DOMAIN infos
         /\ MayCleanup(c)
         /\ cleanup(c, sync))
            => /\ DOMAIN NewCall(c).detaches = DOMAIN infos[c]
               /\ \A n \in DOMAIN attaches[c] :
                     n \in DOMAIN NewCall(c).detaches
               /\ \A n \in DOMAIN infos[c] :
                     sync[n] = "ok" => NewCall(c).detaches[n] = Pending

\* C8, the end: when every DEL of the call exited 0 and the namespace handle
\* is mounted, as isolate leaves it before it starts the ADDs, _cleanup
\* removes the container directory and returns success.
CleanupAfterDels(c) ==
    \A k \in DOMAIN cleanups[c] :
        (/\ Dispatched(c, k)
         /\ disk[c].ns = "mounted"
         /\ \A n \in DOMAIN cleanups[c][k].detaches :
               cleanups[c][k].detaches[n].st = "ready"
         /\ _cleanup(c, k, "ok", "ok"))
            => /\ cleanups'[c][k].fut.st = "ready"
               /\ ~disk'[c].dir

\* C8: an ADD of cid that exits non-zero makes isolate(cid) fail with a
\* message that contains the plugin's stdout; the cleanup(cid) that follows
\* starts a DEL for every network of infos[cid], the one whose ADD failed
\* included; and when all those DELs exit 0 it removes the container
\* directory and returns success.
C8_FailedAddThenCleanup ==
    /\ [](\A c \in ContainerIds :
            \A n \in DOMAIN attaches[c] :
                (isolateF[c].st # "pending" /\ attaches[c][n].st = "failed")
                    => /\ isolateF[c].st = "failed"
                       /\ [net |-> n, what |-> attaches[c][n].what,
                           out |-> attaches[c][n].out] \in isolateF[c].msgs)
    /\ [][\A c \in ContainerIds :
            /\ AddFailureSurfaces(c)
            /\ CleanupDetachesAll(c)
            /\ CleanupAfterDels(c)]_vars

\* C8 witness: isolate has failed with a message that carries the stdout
\* "no ip" of an ADD that exited non-zero, the other ADD having succeeded.
C8_Witness ==
    \E c \in DOMAIN infos :
        /\ isolateF[c].st = "failed"
        /\ \E m \in isolateF[c].msgs : m.what = "plugin" /\ m.out = "no ip"
        /\ \E n \in DOMAIN attaches[c] : attaches[c][n].st = "ready"
        /\ disk[c].ns = "mounted"

\* The inputs of a recover() call: the known containers in list order, the
\* known orphans, the listing of rootDir, the spawn outcomes.
RecoverInputs ==
    {[states |-> states, orphans |-> orphans, entries |-> entries,
      sync |-> sync] :
        states \in UNION {Orders(S) : S \in SUBSET ContainerIds},
        orphans \in SUBSET ContainerIds,
        entries \in Orders({c \in ContainerIds : disk[c].dir}),
        sync \in [ContainerIds -> SpawnOutcomes]}

\* A recover() step with the inputs in.
RecoverStep(in) ==
    /\ agent = "created"
    /\ {in.states[i] : i \in DOMAIN in.states} \cap in.orphans = {}
    /\ recover(in.states, in.orphans, in.entries, in.sync)

\* Every checkpoint file on disk was written in full.
InfoFilesWhole ==
    \A c \in ContainerIds :
        \A f \in DOMAIN disk[c].info : disk[c].info[f] # Truncated

KnownTo(in, c) ==
    c \in {in.states[i] : i \in DOMAIN in.states} \cup in.orphans

\* The recover() step has called cleanup(c).
Synthesized(c) == cleanups'[c] # cleanups[c]

\* C10, with the 'iff' kept for a recover that returns success: recover calls
\* cleanup(cid) only for a directory of a container that is neither known nor
\* a known orphan, and starts no plugin DEL for a known container or a known
\* orphan; a recover that returns success calls cleanup(cid) for every such
\* directory, and leaves infos[cid] present for every known container and
\* known orphan that has a directory.
C10_RecoverCleansUnknownOrphans ==
    [][\A in \in RecoverInputs :
          RecoverStep(in) =>
              \A c \in ContainerIds :
                  /\ Synthesized(c) => disk[c].dir /\ ~KnownTo(in, c)
                  /\ KnownTo(in, c) => cleanups'[c] = <<>>
                  /\ (agent' = "up" /\ disk[c].dir) =>
                        /\ ~KnownTo(in, c) => Synthesized(c)
                        /\ KnownTo(in, c) => c \in DOMAIN infos']_vars

\* C10, for every recover, failed ones included: for every directory under
\* rootDir, recover calls cleanup(cid) iff cid is neither known nor a known
\* orphan, and for a known container or a known orphan with a directory it
\* leaves infos[cid] present and starts no plugin DEL.
C10_AsStated ==
    [][\A in \in RecoverInputs :
          RecoverStep(in) =>
              \A c \in ContainerIds :
                  disk[c].dir =>
                      /\ Synthesized(c) <=> ~KnownTo(in, c)
                      /\ KnownTo(in, c) =>
                            /\ c \in DOMAIN infos'
                            /\ cleanups'[c] = <<>>]_vars

\* C10 witness: recover has succeeded and its cleanup of a directory the
\* containerizer does not know has a plugin DEL outstanding.
C10_Witness ==
    \E c \in DOMAIN infos :
        /\ agent = "up"
        /\ c \notin known
        /\ \E k \in DOMAIN cleanups[c] :
              /\ cleanups[c][k].by = "recover"
              /\ \E n \in DOMAIN cleanups[c][k].detaches :
                    cleanups[c][k].detaches[n].st = "pending"

\* C11: the cleanup recover() starts for a directory of a container that is
\* neither known nor a known orphan removes everything when every plugin DEL
\* it started exited 0: its _cleanup, with the unmount and the rmdir not
\* failing on their own, leaves no container directory, no ns mount and no
\* infos[cid].
C11_OrphanCleanupRemovesAll ==
    [][\A c \in ContainerIds : \A k \in DOMAIN cleanups[c] :
          (/\ cleanups[c][k].by = "recover"
           /\ Dispatched(c, k)
           /\ \A n \in DOMAIN cleanups[c][k].detaches :
                 cleanups[c][k].detaches[n].st = "ready"
           /\ _cleanup(c, k, "ok", "ok"))
              => /\ disk'[c] = NoDir
                 /\ c \notin DOMAIN infos']_vars

\* The interface directories of c that have no checkpoint file.
Uncheckpointed(c) == {i \in disk[c].ifs : i \notin DOMAIN disk[c].info}

\* C12, the recovery: over a tree whose info files were written in full,
\* recover succeeds and gives every interface directory without info file
\* an attachment with the network name and the ifName of the directory and
\* no result.
RecoverRebuildsWithoutResult(in) ==
    (InfoFilesWhole /\ RecoverStep(in)) =>
        /\ agent' = "up"
        /\ \A c \in ContainerIds : \A i \in Uncheckpointed(c) :
              /\ c \in DOMAIN infos'
              /\ i[1] \in DOMAIN infos'[c]
              /\ infos'[c][i[1]] = [ifName |-> i[2], network |-> NoResult]

\* C12, the DEL: a cleanup of a container makes a detach for each attachment
\* without result, with a DEL outstanding when its spawn succeeds.
CleanupDetachesWithoutResult(c) ==
    \A sync \in SpawnOutcomes :
        (c \in DOMAIN infos /\ MayCleanup(c) /\ cleanup(c, sync)) =>
            \A n \in DOMAIN infos[c] :
                (infos[c][n].network = NoResult /\ sync[n] = "ok") =>
                    /\ n \in DOMAIN NewCall(c).detaches
                    /\ NewCall(c).detaches[n] = Pending

\* C12: when the info file of an attachment is missing at recovery and its
\* interface directory exists, recover succeeds and rebuilds infos[cid] with
\* that attachment, named from the disk and without result; the cleanup(cid)
\* that follows starts a DEL for that network; a DEL that exits 0 removes the
\* interface directory, and, the namespace handle being mounted wherever an
\* interface directory exists, the cleanup succeeds.
C12_RecoverWithoutInfoFile ==
    /\ [](\A c \in ContainerIds :
            disk[c].ifs # {} => disk[c].dir /\ disk[c].ns = "mounted")
    /\ [][/\ \A in \in RecoverInputs : RecoverRebuildsWithoutResult(in)
          /\ \A c \in ContainerIds :
                /\ CleanupDetachesWithoutResult(c)
                /\ CleanupAfterDels(c)]_vars

\* C12 witness: after a recovery, the cleanup of a container has a DEL
\* outstanding for an attachment that was rebuilt without result from an
\* interface directory that has no info file.
C12_Witness ==
    \E c \in DOMAIN infos :
        /\ prepareF[c] = NotCalled
        /\ \E i \in Uncheckpointed(c) :
              /\ i[1] \in DOMAIN infos[c]
              /\ infos[c][i[1]] = [ifName |-> i[2], network |-> NoResult]
              /\ \E k \in DOMAIN cleanups[c] :
                    /\ i[1] \in DOMAIN cleanups[c][k].detaches
                    /\ cleanups[c][k].detaches[i[1]].st = "pending"

\* recover() called once, and called again right after, with the inputs in.
RecoverOnce(in) ==
    recoverResult(infos, cleanups, in.states, in.orphans, in.entries, in.sync)
RecoverTwice(in) ==
    recoverResult(RecoverOnce(in).infos, RecoverOnce(in).cleanups,
                  in.states, in.orphans, in.entries, in.sync)

\* C13: recover called twice in a row with the same known states and orphans
\* over the same tree ends as recover called once: recover writes nothing to
\* the disk, and the second call returns the same result and leaves the
\* same 'infos' and starts no further cleanup.
C13_RecoverIdempotent ==
    [][\A in \in RecoverInputs :
          RecoverStep(in) =>
              /\ disk' = disk
              /\ infos' = RecoverOnce(in).infos
              /\ cleanups' = RecoverOnce(in).cleanups
              /\ RecoverTwice(in).infos = RecoverOnce(in).infos
              /\ RecoverTwice(in).failed = RecoverOnce(in).failed
              /\ RecoverTwice(in).cleanups = RecoverOnce(in).cleanups]_vars

\* C13 witness: recover has rebuilt the entry of a known container from a
\* tree with a parsed info file.
C13_Witness ==
    \E c \in DOMAIN infos :
        /\ agent = "up"
        /\ prepareF[c] = NotCalled
        /\ c \in known
        /\ \E n \in DOMAIN infos[c] : infos[c][n].network.isSome

\* The request makes prepare() fail its validation: the container is not a
\* MESOS container, or a named network is not configured or is named twice.
InvalidRequest(cfg) ==
    /\ cfg.has_container
    /\ \/ cfg.type # "MESOS"
       \/ \E i \in DOMAIN Named(cfg.network_infos) :
             \/ Named(cfg.network_infos)[i] \notin networkConfigs
             \/ \E j \in DOMAIN Named(cfg.network_infos) :
                   /\ i # j
                   /\ Named(cfg.network_infos)[i] = Named(cfg.network_infos)[j]

\* C14: prepare of a request that names a network that is not configured,
\* names a network twice, or is for a container that is not a MESOS
\* container fails, leaves 'infos' as it was and writes nothing to disk.
C14_PrepareRejectsCleanly ==
    [][\A c \in ContainerIds, cfg \in ContainerConfigs :
          (InvalidRequest(cfg) /\ prepare(c, cfg))
              => /\ prepareF'[c].st = "failed"
                 /\ infos' = infos
                 /\ disk' = disk]_vars

\* C14 witness: prepare has rejected a request that names a network twice
\* and the container has no entry in 'infos' and nothing on disk.
C14_Witness ==
    \E c \in ContainerIds :
        /\ prepareF[c].st = "failed"
        /\ prepareF[c].what = "joined multiple times"
        /\ c \notin DOMAIN infos
        /\ disk[c] = NoDir

\* C15: for a container that has no entry in 'infos', isolate and cleanup
\* return success and do nothing else: no attach or detach is made, so no
\* plugin runs, the disk and the mounts stay as they are, and 'infos' is
\* unchanged.
C15_NoOpWithoutEntry ==
    [][\A c \in ContainerIds :
          c \notin DOMAIN infos =>
              /\ \A fail \in SetupFailures,
                    sync \in [ConfigNames -> SyncOutcomes] :
                    isolate(c, fail, sync) =>
                        /\ isolateF'[c] = HookReady
                        /\ attaches' = attaches
                        /\ cleanups' = cleanups
                        /\ disk' = disk
                        /\ infos' = infos
              /\ \A sync \in SpawnOutcomes :
                    cleanup(c, sync) =>
                        /\ NewCall(c).fut = HookReady
                        /\ NewCall(c).detaches = EmptyMap
                        /\ disk' = disk
                        /\ infos' = infos]_vars

\* C15 witness: isolate and cleanup have both returned success for a
\* container without entry in 'infos', and nothing of it is on disk.
C15_Witness ==
    \E c \in ContainerIds :
        /\ c \notin DOMAIN infos
        /\ prepareF[c].st = "none"
        /\ disk[c] = NoDir
        /\ \E k \in DOMAIN cleanups[c] :
              /\ cleanups[c][k].by = "agent"
              /\ cleanups[c][k].fut = HookReady
              /\ cleanups[c][k].detaches = EmptyMap

\* C16: prepare for a container that has an entry in 'infos', made by an
\* earlier prepare or rebuilt by recover and not yet erased by a cleanup,
\* fails whatever the request, and leaves 'infos' and the disk unchanged.
C16_PrepareFailsOnExistingEntry ==
    [][\A c \in DOMAIN infos :
          (\E cfg \in ContainerConfigs : prepare(c, cfg))
              => /\ prepareF'[c].st = "failed"
                 /\ infos' = infos
                 /\ disk' = disk]_vars

\* C16 witness: prepare has failed for a container whose entry is in 'infos'.
C16_Witness ==
    \E c \in DOMAIN infos :
        /\ prepareF[c].st = "failed"
        /\ prepareF[c].what = "already prepared"

\* _recover(c) that returns success on the empty table leaves an entry for c
\* exactly if the container directory exists.
RecoverInsertsIffDir(c) ==
    LET r == _recover(EmptyMap, c) IN
    ~r.isError =>
        /\ DOMAIN r.infos = IF disk[c].dir THEN {c} ELSE {}
        /\ (disk[c].dir /\ getNetworkNames(disk[c]) = {})
               => r.infos[c] = EmptyMap

\* C17: starting from an empty 'infos', after a successful _recover(c) 'infos'
\* holds c exactly if the container directory exists: nothing is inserted
\* for an absent directory, an entry is inserted for an existing one even
\* when it has no attachment. It holds of _recover on every tree the
\* isolator and the crashes leave, and of every recover step, which starts
\* from the empty table and calls _recover for the known containers and for
\* the directories found.
C17_RecoverInsertsIffDirExists ==
    /\ [](\A c \in ContainerIds : RecoverInsertsIffDir(c))
    /\ [][\A in \in RecoverInputs :
             (RecoverStep(in) /\ agent' = "up") =>
                 /\ infos = EmptyMap
                 /\ \A c \in ContainerIds :
                       (c \in in.orphans \/ \E i \in DOMAIN in.states :
                                                in.states[i] = c)
                           => (c \in DOMAIN infos' <=> disk[c].dir)]_vars

\* C17 witness: recover has inserted an entry without attachment for a known
\* container whose directory holds no network.
C17_Witness ==
    \E c \in DOMAIN infos :
        /\ agent = "up"
        /\ prepareF[c] = NotCalled
        /\ c \in known
        /\ cleanups[c] = <<>>
        /\ disk[c].dir
        /\ getNetworkNames(disk[c]) = {}
        /\ infos[c] = EmptyMap

\* C18: the first cleanup of an agent run for a container whose entry
\* recover rebuilt from the tree a crash left, in which every plugin DEL
\* exited 0 (every detach is ready), runs to success: its _cleanup, with the
\* unmount and the rmdir not failing on their own, returns success, leaves
\* no ns mount and no container directory and erases infos[cid].
C18_CleanupAfterRecovery ==
    [][\A c \in ContainerIds : \A k \in DOMAIN cleanups[c] :
          (/\ prepareF[c] = NotCalled
           /\ cleanups[c][k].by = "agent"
           /\ ~cleanups[c][k].retry
           /\ Dispatched(c, k)
           /\ \A n \in DOMAIN cleanups[c][k].detaches :
                 cleanups[c][k].detaches[n].st = "ready"
           /\ _cleanup(c, k, "ok", "ok"))
              => /\ cleanups'[c][k].fut = HookReady
                 /\ disk'[c].ns # "mounted"
                 /\ ~disk'[c].dir
                 /\ c \notin DOMAIN infos']_vars

\* The ns bind mount of c exists.
Mounted(c) == disk[c].ns = "mounted"

\* A plugin ADD of c is outstanding.
AddOutstanding(c) == \E n \in DOMAIN attaches[c] : attaches[c][n].st = "pending"

\* The mount is made inside isolate() only: by a step that starts from a
\* container prepare() made an entry for and isolate() was not called for.
MountedByIsolate ==
    \A c \in ContainerIds :
        (~Mounted(c) /\ Mounted(c)') =>
            /\ c \in DOMAIN infos
            /\ prepareF[c].st = "some"
            /\ MayIsolate(c)

\* The mount is released inside _cleanup() only, and only when none of the
\* detaches it awaited failed.
UnmountedByCleanup ==
    \A c \in ContainerIds :
        (Mounted(c) /\ ~Mounted(c)') =>
            /\ c \in DOMAIN infos
            /\ \E k \in DOMAIN cleanups[c] :
                  /\ Dispatched(c, k)
                  /\ Messages(cleanups[c][k].detaches) = {}

\* A _cleanup() that returns success leaves no mount.
CleanupUnmounts ==
    \A c \in ContainerIds : \A k \in DOMAIN cleanups[c] :
        \A um \in UnmountOutcomes, rm \in RmOutcomes :
            (Dispatched(c, k) /\ _cleanup(c, k, um, rm)
                 /\ cleanups'[c][k].fut = HookReady)
                => ~Mounted(c)'

\* C19: the ns bind mount is made by isolate before it starts any ADD and
\* released only by a _cleanup whose DELs all succeeded: while an ADD is
\* outstanding or an interface directory exists the mount exists, and after
\* a cleanup that returned success it does not. It can exist with no ADD
\* started, and be gone without a cleanup that succeeded.
C19_MountLifetime ==
    /\ [](\A c \in ContainerIds :
             (AddOutstanding(c) \/ disk[c].ifs # {}) => Mounted(c))
    /\ [][MountedByIsolate /\ UnmountedByCleanup /\ CleanupUnmounts]_vars

\* C19, the statement with the ADD as condition: an isolate that makes the
\* mount, for a container that had none, starts at least one ADD.
C19_MountImpliesAdd ==
    [][\A c \in DOMAIN infos :
          \A fail \in SetupFailures, sync \in [ConfigNames -> SyncOutcomes] :
              (~Mounted(c) /\ isolate(c, fail, sync) /\ Mounted(c)')
                  => \E n \in DOMAIN infos[c] : attaches'[c][n] = Pending]_vars

\* C19 witness: isolate has made the mount and every attach failed before
\* its plugin was started, so no ADD was started for the container.
C19_Witness ==
    \E c \in DOMAIN infos :
        /\ Mounted(c)
        /\ prepareF[c].st = "some"
        /\ isolateF[c].st = "failed"
        /\ DOMAIN attaches[c] = DOMAIN infos[c]
        /\ \A n \in DOMAIN attaches[c] :
              /\ attaches[c][n].st = "failed"
              /\ (<<n, infos[c][n].ifName>>) \notin disk[c].ifs

\* prepare() has made the entry of c and nothing of c is on disk yet.
PreparedOnly(c) ==
    /\ prepareF[c].st = "some"
    /\ disk[c] = NoDir
    /\ attaches[c] = EmptyMap

\* C20: for every container that has an entry in 'infos' the directory
\* rootDir/<cid>/ exists once isolate has passed its os::mkdir, and for every
\* entry recover rebuilt; it stays until a _cleanup removes it together with
\* the entry. An entry prepare made has no directory until isolate makes it.
C20_EntryHasDirectoryAfterIsolate ==
    /\ [](\A c \in DOMAIN infos : disk[c].dir \/ PreparedOnly(c))
    /\ [][\A c \in DOMAIN infos :
             /\ \A fail \in SetupFailures \ {"mkdir"},
                   sync \in [ConfigNames -> SyncOutcomes] :
                   isolate(c, fail, sync) => disk'[c].dir
             /\ (disk[c].dir /\ ~disk'[c].dir) => c \notin DOMAIN infos']_vars

\* C20, the statement for every entry: the directory of every container in
\* 'infos' exists.
C20_EntryHasDirectory ==
    \A c \in DOMAIN infos : disk[c].dir

\* C20 witness: isolate has returned for a container in 'infos' and its
\* directory exists.
C20_Witness ==
    \E c \in DOMAIN infos :
        /\ prepareF[c].st = "some"
        /\ isolateF[c].st = "ready"
        /\ disk[c].dir

\* The plugin run t is an ADD that exited 0 with output that parses.
AddSucceeded(t) ==
    /\ t.status = "ready" /\ t.code = 0 /\ t.read = "ready"
    /\ ~parseNetworkInfo(t.out).isError

\* Every info file on disk belongs to an attachment 'infos' holds.
InfoFilesHaveEntry ==
    \A c \in ContainerIds : \A f \in DOMAIN disk[c].info :
        /\ c \in DOMAIN infos
        /\ f[1] \in DOMAIN infos[c]
        /\ infos[c][f[1]].ifName = f[2]

\* An info file appears or changes only in the _attach of an ADD that
\* exited 0 with output that parses, which writes that output, or when the
\* agent dies inside the os::write of an _attach.
InfoWrittenByAdd ==
    \A c \in ContainerIds : \A f \in DOMAIN disk'[c].info :
        (f \notin DOMAIN disk[c].info \/ disk[c].info[f] # disk'[c].info[f])
            => /\ c \in DOMAIN infos
               /\ f[1] \in DOMAIN attaches[c]
               /\ attaches[c][f[1]].st = "pending"
               /\ \/ \E t \in PluginRuns :
                        /\ AddSucceeded(t)
                        /\ _attach(c, f[1], t, "ok")
                        /\ disk'[c].info[f] = t.out
                  \/ (agent' = "created" /\ disk'[c].info[f] = Truncated)

\* The _attach of an ADD that failed or whose output does not parse writes
\* nothing.
FailedAddWritesNothing ==
    \A c \in ContainerIds, t \in PluginRuns, wr \in WriteOutcomes :
        \A net \in DOMAIN attaches[c] :
            (attaches[c][net].st = "pending" /\ ~AddSucceeded(t)
                 /\ _attach(c, net, t, wr))
                => disk' = disk

\* C21: every info file was written by the _attach of a plugin ADD that
\* exited 0 with output that parses, a failed or unparseable ADD writes no
\* file, and, in an agent whose recover has returned success, 'infos' holds
\* the container and the attachment of every info file on disk.
C21_InfoFileFromSuccessfulAdd ==
    /\ [](agent = "up" => InfoFilesHaveEntry)
    /\ [][InfoWrittenByAdd /\ FailedAddWritesNothing]_vars

\* C21, the statement for every state: 'infos' holds the container of every
\* info file on disk.
C21_InfoFileHasEntry ==
    \A c \in ContainerIds : disk[c].info # EmptyMap => c \in DOMAIN infos

\* C21 witness: an info file with the output of the plugin is on disk and
\* 'infos' holds its attachment with the parsed result.
C21_Witness ==
    \E c \in DOMAIN infos : \E f \in DOMAIN disk[c].info :
        /\ agent = "up"
        /\ f[1] \in DOMAIN infos[c]
        /\ infos[c][f[1]].network.isSome
        /\ ~parseNetworkInfo(disk[c].info[f]).isError

\* The k-th cleanup call of c has had every DEL it started terminate with
\* success and its _cleanup() is about to run.
AllDelsSucceeded(c, k) ==
    /\ Dispatched(c, k)
    /\ Messages(cleanups[c][k].detaches) = {}

\* The unmount, the removal of the directory and the erasure of infos[c]
\* happen only in the _cleanup of a call whose DELs all succeeded.
FinalizesAfterDels(c) ==
    (\/ Mounted(c) /\ ~Mounted(c)'
     \/ disk[c].dir /\ ~disk'[c].dir
     \/ c \in DOMAIN infos /\ c \notin DOMAIN infos' /\ agent' = "up")
        => \E k \in DOMAIN cleanups[c] : AllDelsSucceeded(c, k)

\* _cleanup() unmounts, then removes, then erases: a failed unmount leaves
\* everything, a failed rmdir leaves the directory (when there is one) and
\* the entry with the mount released, and only when both succeed are the
\* directory and the entry gone.
FinalizesInOrder(c) ==
    \A k \in DOMAIN cleanups[c], um \in UnmountOutcomes, rm \in RmOutcomes :
        (AllDelsSucceeded(c, k) /\ _cleanup(c, k, um, rm)) =>
            IF disk[c].ns # "absent" /\ ~(Mounted(c) /\ um = "ok")
            THEN /\ cleanups'[c][k].fut.st = "failed"
                 /\ disk' = disk
                 /\ infos' = infos
            ELSE IF rm # "ok"
            THEN /\ cleanups'[c][k].fut.st = "failed"
                 /\ ~Mounted(c)'
                 /\ disk'[c].dir = disk[c].dir
                 /\ infos' = infos
            ELSE /\ cleanups'[c][k].fut = HookReady
                 /\ disk'[c] = NoDir
                 /\ c \notin DOMAIN infos'

\* C22: cleanup finalizes only after every DEL it started has terminated
\* and all of them succeeded, in the order unmount of the ns handle if it is
\* present, removal of the container directory, erasure of infos[cid]; when
\* the unmount or the removal fails, cleanup fails and infos[cid] stays.
C22_CleanupFinalizesInOrder ==
    [][\A c \in ContainerIds : FinalizesAfterDels(c) /\ FinalizesInOrder(c)]_vars

\* C22 witness: a cleanup whose DEL succeeded has failed at the removal of
\* the directory: the mount is released, the directory and the entry stay.
C22_Witness ==
    \E c \in DOMAIN infos : \E k \in DOMAIN cleanups[c] :
        /\ cleanups[c][k].fut.st = "failed"
        /\ cleanups[c][k].fut.msgs = {Msg("rmdir")}
        /\ cleanups[c][k].detaches # EmptyMap
        /\ disk[c].dir
        /\ disk[c].ns = "file"

\* The containers recover() calls _recover() for when no call fails: the
\* known ones and the directories under rootDir.
Visited(in) ==
    {in.states[i] : i \in DOMAIN in.states}
        \cup {in.entries[i] : i \in DOMAIN in.entries}

\* The network directories of c with exactly one, several or no interface
\* directory.
OneInterface(c) ==
    {n \in disk[c].nets : Cardinality(getInterfaces(disk[c], n)) = 1}
ManyInterfaces(c) ==
    {n \in disk[c].nets : Cardinality(getInterfaces(disk[c], n)) > 1}
NoInterface(c) ==
    {n \in disk[c].nets : getInterfaces(disk[c], n) = {}}

\* Every network directory is of a configured network, and every info file
\* was written in full.
TreeReadable(c) ==
    /\ disk[c].nets \subseteq networkConfigs
    /\ \A f \in DOMAIN disk[c].info : disk[c].info[f] # Truncated

\* C23: a network directory that holds more than one interface directory
\* makes _recover, and with it recover, fail; a network directory without
\* interface directory is skipped: recover goes on, succeeds when nothing
\* else is wrong with the tree, and gives the container an attachment for
\* each network directory that holds one interface directory and none for
\* the empty ones.
C23_RecoverInterfaceCount ==
    [][\A in \in RecoverInputs :
          RecoverStep(in) =>
              /\ (\E c \in Visited(in) : disk[c].dir /\ ManyInterfaces(c) # {})
                     => /\ agent' = "failed"
                        /\ \A c \in Visited(in) :
                              ManyInterfaces(c) # {} => c \notin DOMAIN infos'
              /\ (\A c \in Visited(in) :
                      TreeReadable(c) /\ ManyInterfaces(c) = {})
                     => /\ agent' = "up"
                        /\ \A c \in Visited(in) :
                              disk[c].dir =>
                                  /\ c \in DOMAIN infos'
                                  /\ DOMAIN infos'[c] = OneInterface(c)]_vars

\* C23 witness: recover has succeeded over a tree with a network directory
\* that holds no interface directory and another that holds one; the
\* container has an attachment for the second only.
C23_Witness ==
    \E c \in DOMAIN infos :
        /\ agent = "up"
        /\ NoInterface(c) # {}
        /\ DOMAIN infos[c] # {}
        /\ DOMAIN infos[c] = OneInterface(c)

\* rootDir is a shared mount whose peer group is not that of its parent.
OwnPeerGroup(t) ==
    t.mounted /\ t.shared # NoGroup /\ t.shared # t.parent

\* C24: from every state of the mount of rootDir (no mount point; a mount
\* that is not shared; a shared mount in the peer group of its parent; a
\* shared mount in a peer group of its own) a create() that succeeds with
\* the directories given leaves rootDir a shared mount in a peer group that
\* is not its parent's, on which create() would issue no mount command; and
\* a create() over such a mount leaves the mount table as it is.
C24_MountSetupIdempotent ==
    [][\A fail \in CreateFailures, fresh \in FreshGroups(mountTable),
          configs \in SUBSET ConfigNames \ {{}} :
          (agent = "starting" /\ create("set", fail, fresh, configs)) =>
              /\ agent' = "created" =>
                    /\ OwnPeerGroup(mountTable')
                    /\ mountCommands(mountTable') = <<>>
              /\ OwnPeerGroup(mountTable) => mountTable' = mountTable]_vars

\* C24 witness: create() has succeeded over a mount that was shared in the
\* peer group of its parent: it now receives from that group and has a peer
\* group of its own.
C24_Witness ==
    /\ agent = "created"
    /\ networkConfigs # {}
    /\ OwnPeerGroup(mountTable)
    /\ mountTable.master # NoGroup
    /\ mountTable.master = mountTable.parent

\* C25: whenever an _attach, _detach or _cleanup continuation runs, 'infos'
\* still holds the container and, for _attach and _detach, the network: no
\* CHECK of a continuation fails, so the agent is never aborted by one.
C25_ChecksNeverFail ==
    agent # "aborted"

\* The network directories of c whose name is not among the configurations
\* loaded by create().
UnknownNetworks(c) == getNetworkNames(disk[c]) \ networkConfigs

\* C26: when the directory of a container holds a network directory whose
\* name is not in networkConfigs, with or without an interface directory in
\* it, _recover fails for that container and leaves 'infos' as it was;
\* recover, which calls _recover for it, fails, and 'infos' gets no entry for
\* the container.
C26_RecoverFailsOnUnknownNetwork ==
    [][\A in \in RecoverInputs :
          RecoverStep(in) =>
              \A c \in Visited(in) :
                  (disk[c].dir /\ UnknownNetworks(c) # {}) =>
                      /\ _recover(infos, c).isError
                      /\ _recover(infos, c).infos = infos
                      /\ agent' = "failed"
                      /\ c \notin DOMAIN infos']_vars

\* C26 witness: recover has failed over a tree in which nothing is wrong but
\* a network directory of a name that is not configured, and that directory
\* holds no interface directory.
C26_Witness ==
    \E c \in ContainerIds :
        /\ agent = "failed"
        /\ disk[c].dir
        /\ c \notin DOMAIN infos
        /\ UnknownNetworks(c) # {}
        /\ UnknownNetworks(c) \subseteq NoInterface(c)
        /\ \A n \in getNetworkNames(disk[c]) \cap networkConfigs :
              recoverNetwork(disk[c], n).error = ""

\* The k-th cleanup call of c was made by recover().
RecoverMade(c, k) == cleanups[c][k].by = "recover"

\* recover() returns without waiting for the cleanup() calls it makes: what
\* it returns is the same whatever becomes of the plugins they spawn, and
\* the future of each of these calls is pending when it returns.
ReturnsBeforeCleanups(in) ==
    /\ \A sync \in [ContainerIds -> SpawnOutcomes] :
          recoverResult(infos, cleanups, in.states, in.orphans, in.entries,
                        sync).failed = (agent' = "failed")
    /\ \A c \in ContainerIds :
          Synthesized(c) =>
              /\ cleanups'[c][Len(cleanups'[c])].by = "recover"
              /\ cleanups'[c][Len(cleanups'[c])].fut = HookPending

\* A cleanup() call made by recover() that fails leaves the agent running,
\* infos[c] and the directory of the container.
FailureStaysLocal(c, k) ==
    \A um \in UnmountOutcomes, rm \in RmOutcomes :
        (/\ agent = "up"
         /\ RecoverMade(c, k)
         /\ Dispatched(c, k)
         /\ _cleanup(c, k, um, rm)
         /\ cleanups'[c][k].fut.st = "failed")
            => /\ agent' = "up"
               /\ c \in DOMAIN infos'
               /\ disk'[c].dir

\* C27: recover does not await the cleanups it starts for the directories of
\* containers the containerizer does not know: it returns once the tree is
\* scanned, with the futures of these cleanups pending and whatever their
\* plugin DELs do; when such a cleanup fails later, the agent stays up, and
\* infos[cid] and the container directory stay in place.
C27_RecoverDoesNotAwaitCleanups ==
    [][/\ \A in \in RecoverInputs :
             RecoverStep(in) => ReturnsBeforeCleanups(in)
       /\ \A c \in ContainerIds : \A k \in DOMAIN cleanups[c] :
             FailureStaysLocal(c, k)]_vars

\* C27 witness: recover has returned success, the cleanup it made for a
\* container the containerizer does not know has failed since, and the entry
\* and the directory of the container are still there.
C27_Witness ==
    \E c \in DOMAIN infos : \E k \in DOMAIN cleanups[c] :
        /\ agent = "up"
        /\ c \notin known
        /\ RecoverMade(c, k)
        /\ cleanups[c][k].fut.st = "failed"
        /\ disk[c].dir

====
